---------------------------- MODULE Spec2Model ----------------------------
(***************************************************************************)
(* A model of the media-inventory pipeline of video-toolbox:               *)
(*   main.py            the batch loop, its statistics and the cursor      *)
(*   file_processing.py probe, stream classification, issue detection,     *)
(*                      transcode sampling and record compilation          *)
(*   media-inventory.py the helpers file_processing.py imports from utils  *)
(*                      (get_json_value, is_empty_or_na, the speed ratio   *)
(*                      and its tiers, the file list and its cursor)       *)
(*                                                                         *)
(* Python text is a sequence of one-character strings, so that lower(),    *)
(* split(), strip(), "in", sorted() and the f-strings are computed and not *)
(* assumed.  A Python value is a record tagged with its type.              *)
(***************************************************************************)
EXTENDS Integers, Sequences, FiniteSets, TLC

VARIABLES
    args,        \* the command line: samples (-s), duration (-t), is_file_list
    file_list,   \* the entries of file_list.txt, in order
    cursor,      \* the "# Cursor: n" line stored in file_list.txt
    pc,          \* where main is
    i,           \* main's loop index
    result,      \* the record process_file returned for entry i
    call,        \* the call of process_file in progress: its record or exception
    raised,      \* the exception that left main ("" while none has)
    probe,       \* what run_ffprobe did on its last call
    csv,         \* the rows written and flushed to video_files.csv
    stats,       \* main's counters
    doc,         \* the probe document under analysis
    analysis,    \* what the classification and detect_issues made of doc
    tc,          \* the transcode sampler: its loop, its process and the clock
    fix          \* fix-health-issues.py, transcode-hdr-to-sdr.py: the run and its files

vars == <<args, file_list, cursor, pc, i, result, call, raised, probe, csv,
          stats, doc, analysis, tc, fix>>

-----------------------------------------------------------------------------
(* Text *)

\* the code points of the characters; SUPERSCRIPT TWO is written "U+00B2"
ascii ==
    (" " :> 32) @@ ("!" :> 33) @@ ("#" :> 35) @@ ("$" :> 36) @@ ("%" :> 37) @@ ("&" :> 38) @@
    ("'" :> 39) @@ ("(" :> 40) @@ (")" :> 41) @@ ("*" :> 42) @@ ("+" :> 43) @@ ("," :> 44) @@
    ("-" :> 45) @@ ("." :> 46) @@ ("/" :> 47) @@ ("0" :> 48) @@ ("1" :> 49) @@ ("2" :> 50) @@
    ("3" :> 51) @@ ("4" :> 52) @@ ("5" :> 53) @@ ("6" :> 54) @@ ("7" :> 55) @@ ("8" :> 56) @@
    ("9" :> 57) @@ (":" :> 58) @@ (";" :> 59) @@ ("<" :> 60) @@ ("=" :> 61) @@ (">" :> 62) @@
    ("?" :> 63) @@ ("A" :> 65) @@ ("B" :> 66) @@ ("C" :> 67) @@ ("D" :> 68) @@
    ("E" :> 69) @@ ("F" :> 70) @@ ("G" :> 71) @@ ("H" :> 72) @@ ("I" :> 73) @@ ("J" :> 74) @@
    ("K" :> 75) @@ ("L" :> 76) @@ ("M" :> 77) @@ ("N" :> 78) @@ ("O" :> 79) @@ ("P" :> 80) @@
    ("Q" :> 81) @@ ("R" :> 82) @@ ("S" :> 83) @@ ("T" :> 84) @@ ("U" :> 85) @@ ("V" :> 86) @@
    ("W" :> 87) @@ ("X" :> 88) @@ ("Y" :> 89) @@ ("Z" :> 90) @@ ("[" :> 91) @@ ("]" :> 93) @@
    ("^" :> 94) @@ ("_" :> 95) @@ ("a" :> 97) @@ ("b" :> 98) @@ ("c" :> 99) @@
    ("d" :> 100) @@ ("e" :> 101) @@ ("f" :> 102) @@ ("g" :> 103) @@ ("h" :> 104) @@ ("i" :> 105) @@
    ("j" :> 106) @@ ("k" :> 107) @@ ("l" :> 108) @@ ("m" :> 109) @@ ("n" :> 110) @@ ("o" :> 111) @@
    ("p" :> 112) @@ ("q" :> 113) @@ ("r" :> 114) @@ ("s" :> 115) @@ ("t" :> 116) @@ ("u" :> 117) @@
    ("v" :> 118) @@ ("w" :> 119) @@ ("x" :> 120) @@ ("y" :> 121) @@ ("z" :> 122) @@ ("{" :> 123) @@
    ("|" :> 124) @@ ("}" :> 125) @@ ("~" :> 126) @@ ("U+00B2" :> 178)

chr(n) == CHOOSE c \in DOMAIN ascii : ascii[c] = n

digit_chars == <<"0","1","2","3","4","5","6","7","8","9">>

is_digit_char(c) == ascii[c] >= 48 /\ ascii[c] <= 57

\* str.lower() on one character
lower_char(c) == IF ascii[c] >= 65 /\ ascii[c] <= 90 THEN chr(ascii[c] + 32) ELSE c

\* str.lower()
lower(s) == [k \in 1..Len(s) |-> lower_char(s[k])]

\* sub in s
contains(s, sub) ==
    \E k \in 1..(Len(s) - Len(sub) + 1) : SubSeq(s, k, k + Len(sub) - 1) = sub

\* the order Python compares str by: code point by code point, a proper
\* prefix first
RECURSIVE str_less(_, _)
str_less(a, b) ==
    IF b = <<>> THEN FALSE
    ELSE IF a = <<>> THEN TRUE
    ELSE IF a[1] # b[1] THEN ascii[a[1]] < ascii[b[1]]
    ELSE str_less(Tail(a), Tail(b))

\* insertion of one string into a sorted list, after its equals
RECURSIVE insert_sorted(_, _)
insert_sorted(x, l) ==
    IF l = <<>> THEN <<x>>
    ELSE IF str_less(x, l[1]) THEN <<x>> \o l
    ELSE <<l[1]>> \o insert_sorted(x, Tail(l))

\* sorted(list of str)
RECURSIVE sorted(_)
sorted(l) ==
    IF l = <<>> THEN <<>>
    ELSE insert_sorted(l[Len(l)], sorted(SubSeq(l, 1, Len(l) - 1)))

\* sep.join(list of str)
RECURSIVE join(_, _)
join(sep, l) ==
    IF l = <<>> THEN <<>>
    ELSE IF Len(l) = 1 THEN l[1]
    ELSE l[1] \o sep \o join(sep, Tail(l))

\* s.split(c) for a one-character separator
RECURSIVE split(_, _)
split(s, c) ==
    IF \A k \in 1..Len(s) : s[k] # c THEN <<s>>
    ELSE LET p == CHOOSE k \in 1..Len(s) : s[k] = c /\ \A j \in 1..(k - 1) : s[j] # c
         IN  <<SubSeq(s, 1, p - 1)>> \o split(SubSeq(s, p + 1, Len(s)), c)

\* s.strip()
RECURSIVE strip(_)
strip(s) ==
    IF s = <<>> THEN s
    ELSE IF s[1] = " " THEN strip(Tail(s))
    ELSE IF s[Len(s)] = " " THEN strip(SubSeq(s, 1, Len(s) - 1))
    ELSE s

\* s is made of decimal digits, the only digits int() and float() read
isdecimal(s) == s # <<>> /\ \A k \in 1..Len(s) : is_digit_char(s[k])

\* s.isdigit(): true of the superscript digits too
isdigit(s) == s # <<>> /\ \A k \in 1..Len(s) : is_digit_char(s[k]) \/ s[k] = "U+00B2"

\* s.replace(c, '', 1)
remove_first(s, c) ==
    IF \A k \in 1..Len(s) : s[k] # c THEN s
    ELSE LET p == CHOOSE k \in 1..Len(s) : s[k] = c /\ \A j \in 1..(k - 1) : s[j] # c
         IN  SubSeq(s, 1, p - 1) \o SubSeq(s, p + 1, Len(s))

\* the decimal digits of a natural number
RECURSIVE nat_str(_)
nat_str(n) ==
    IF n < 10 THEN <<digit_chars[n + 1]>>
    ELSE nat_str(n \div 10) \o <<digit_chars[(n % 10) + 1]>>

\* str(n) for an int
int_str(n) == IF n < 0 THEN <<"-">> \o nat_str(-n) ELSE nat_str(n)

\* the value of a string of digits
RECURSIVE digits_value(_)
digits_value(s) ==
    IF s = <<>> THEN 0
    ELSE 10 * digits_value(SubSeq(s, 1, Len(s) - 1)) + (ascii[s[Len(s)]] - 48)

RECURSIVE pow10(_)
pow10(k) == IF k = 0 THEN 1 ELSE 10 * pow10(k - 1)

RECURSIVE gcd(_, _)
gcd(a, b) == IF b = 0 THEN a ELSE gcd(b, a % b)

abs(n) == IF n < 0 THEN -n ELSE n

-----------------------------------------------------------------------------
(* Python values.  A float is the fraction n/d in lowest terms, d > 0.      *)

S(chars) == [t |-> "str", v |-> chars]
I(n) == [t |-> "int", v |-> n]
None == [t |-> "None"]
L(items) == [t |-> "list", v |-> items]
D(entries) == [t |-> "dict", v |-> entries]

F(n, d) ==
    LET g == gcd(abs(n), abs(d))
    IN  [t |-> "float", n |-> IF d < 0 THEN (-n) \div g ELSE n \div g, d |-> abs(d) \div g]

NA == S(<<"N","/","A">>)
Error == S(<<"E","r","r","o","r">>)

\* what a call gives: a value, or the exception it raises
Ok(v) == [exc |-> "", v |-> v]
Raise(e) == [exc |-> e]

is_number(x) == x.t \in {"int", "float"}
num_of(x) == IF x.t = "int" THEN x.v ELSE x.n
den_of(x) == IF x.t = "int" THEN 1 ELSE x.d

\* a == b; an int and a float compare by value, values of other types only
\* with their own type
py_eq(a, b) ==
    IF is_number(a) /\ is_number(b) THEN num_of(a) * den_of(b) = num_of(b) * den_of(a)
    ELSE a.t = b.t /\ a = b

\* a < b on numbers
num_lt(a, b) == num_of(a) * den_of(b) < num_of(b) * den_of(a)

\* an optional sign, then the rest
unsigned(s) == IF s # <<>> /\ s[1] \in {"+", "-"} THEN Tail(s) ELSE s
sign_of(s) == IF s # <<>> /\ s[1] = "-" THEN -1 ELSE 1

\* int(x): int("12"), int(" -3 "); a string that is no integer literal is a
\* ValueError, None or a container a TypeError
py_int(x) ==
    CASE x.t = "int" -> Ok(x)
      [] x.t = "float" -> Ok(I(IF x.n < 0 THEN -((-x.n) \div x.d) ELSE x.n \div x.d))
      [] x.t = "str" ->
            LET body == unsigned(strip(x.v))
            IN  IF isdecimal(body) THEN Ok(I(sign_of(strip(x.v)) * digits_value(body)))
                ELSE Raise("ValueError")
      [] OTHER -> Raise("TypeError")

\* float(x) for the decimal literals the pipeline meets ("23.976", "30",
\* "120.5"); any other string is a ValueError, None or a container a TypeError
py_float(x) ==
    CASE x.t = "int" -> Ok(F(x.v, 1))
      [] x.t = "float" -> Ok(x)
      [] x.t = "str" ->
            LET body == unsigned(strip(x.v))
                parts == split(body, ".")
            IN  IF isdecimal(remove_first(body, "."))
                THEN LET frac == IF Len(parts) > 1 THEN parts[2] ELSE <<>>
                     IN  Ok(F(sign_of(strip(x.v)) * digits_value(parts[1] \o frac),
                              pow10(Len(frac))))
                ELSE Raise("ValueError")
      [] OTHER -> Raise("TypeError")

\* the digits of n, left-padded with zeros to width w
RECURSIVE zero_pad(_, _)
zero_pad(s, w) == IF Len(s) >= w THEN s ELSE zero_pad(<<"0">> \o s, w)

\* n/d rounded to k decimals, as the integer round(n/d * 10^k).  A tie of a
\* binary fraction (1/16 to 3 decimals) goes to the even neighbour; a tie of
\* any other fraction (1/2000) is rounded by its nearest double, and the
\* values formatted here are kept clear of those.
round_scaled(n, d, k) ==
    LET whole == abs(n) \div d
        rest == (abs(n) % d) * pow10(k)
        q == whole * pow10(k) + rest \div d
        r == rest % d
        up == 2 * r > d \/ (2 * r = d /\ q % 2 = 1)
    IN  (IF n < 0 THEN -1 ELSE 1) * (IF up THEN q + 1 ELSE q)

\* f"{x:.kf}" of the float x of magnitude n/d whose sign bit is `negative`:
\* the sign is printed even when the digits round to zero ("-0.000")
format_signed(negative, n, d, k) ==
    LET ds == zero_pad(nat_str(round_scaled(n, d, k)), k + 1)
    IN  (IF negative THEN <<"-">> ELSE <<>>)
        \o SubSeq(ds, 1, Len(ds) - k) \o <<".">> \o SubSeq(ds, Len(ds) - k + 1, Len(ds))

\* f"{n/d:.kf}"
format_fixed(n, d, k) == format_signed(n < 0, abs(n), d, k)

\* the trailing zeros of a fraction part dropped, one digit kept
RECURSIVE drop_zeros(_)
drop_zeros(s) ==
    IF Len(s) > 1 /\ s[Len(s)] = "0" THEN drop_zeros(SubSeq(s, 1, Len(s) - 1)) ELSE s

\* str(x) of a float with at most three decimals: "23.976", "25.0"
float_str(x) ==
    LET ds == format_fixed(x.n, x.d, 3)
        parts == split(ds, ".")
    IN  parts[1] \o <<".">> \o drop_zeros(parts[2])

\* str(x), as an f-string or str() renders a value
py_str(x) ==
    CASE x.t = "str" -> x.v
      [] x.t = "int" -> int_str(x.v)
      [] x.t = "float" -> float_str(x)
      [] x.t = "None" -> <<"N","o","n","e">>
      [] x.t = "list" -> <<"[",".",".",".","]">>
      [] OTHER -> <<"{",".",".",".","}">>

\* is_empty_or_na(value)
is_empty_or_na(value) ==
    value.t = "None"
    \/ (value.t = "str" /\ value.v \in {<<>>, <<"N","/","A">>, <<"n","u","l","l">>, <<"N","U","L","L">>, <<"N","u","l","l">>})

\* one step of get_json_value's walk: json_data[key], or the exception
subscript(json_data, key) ==
    IF "idx" \in DOMAIN key
    THEN CASE json_data.t = "list" ->
                  IF key.idx + 1 \in DOMAIN json_data.v THEN Ok(json_data.v[key.idx + 1])
                  ELSE Raise("IndexError")
           [] json_data.t = "dict" -> Raise("KeyError")
           [] json_data.t = "str" ->
                  IF key.idx + 1 \in DOMAIN json_data.v THEN Ok(S(<<json_data.v[key.idx + 1]>>))
                  ELSE Raise("IndexError")
           [] OTHER -> Raise("TypeError")
    ELSE CASE json_data.t = "dict" ->
                  IF key.name \in DOMAIN json_data.v THEN Ok(json_data.v[key.name])
                  ELSE Raise("KeyError")
           [] OTHER -> Raise("TypeError")

\* get_json_value(json_data, key_path, default): the dotted key_path is given
\* as its keys, a digit key as a list index.  The helper in media-inventory.py
\* always falls back to "N/A"; extract_file_info passes 0 for the duration.
RECURSIVE get_json_value(_, _, _)
get_json_value(json_data, key_path, default) ==
    IF key_path = <<>> THEN json_data
    ELSE LET r == subscript(json_data, key_path[1])
         IN  IF r.exc # "" THEN default
             ELSE get_json_value(r.v, Tail(key_path), default)

K(name) == [name |-> name]
N(idx) == [idx |-> idx]

\* d.get(key, default) on a dict
dict_get(d, key, default) == IF key \in DOMAIN d.v THEN d.v[key] ELSE default

-----------------------------------------------------------------------------
(* file_processing.py: stream classification *)

\* parse_frame_rate(frame_rate): the text it returns, or the exception of
\* float(), which the elif branch calls outside any try
parse_frame_rate(frame_rate) ==
    IF frame_rate.t # "str" THEN Ok(NA)
    ELSE IF contains(frame_rate.v, <<"/">>)
    THEN LET parts == split(frame_rate.v, "/")
             num == py_int(S(parts[1]))
             den == py_int(S(parts[2]))
         IN  IF Len(parts) # 2 \/ num.exc # "" \/ den.exc # "" THEN Ok(NA)
             ELSE IF den.v.v # 0
             THEN Ok(S(format_signed((num.v.v < 0) # (den.v.v < 0), abs(num.v.v), abs(den.v.v), 3)))
             ELSE Ok(NA)
    ELSE IF isdigit(remove_first(frame_rate.v, "."))
    THEN LET f == py_float(frame_rate)
         IN  IF f.exc # "" THEN Raise(f.exc) ELSE Ok(S(format_fixed(f.v.n, f.v.d, 3)))
    ELSE Ok(NA)

\* detect_hdr, were the transfer characteristic compared without lower()
detect_hdr_cased(color_transfer) ==
    IF contains(py_str(color_transfer), <<"S","M","P","T","E","2","0","8","4">>)
       \/ contains(py_str(color_transfer), <<"H","L","G">>)
    THEN S(<<"Y","e","s">>) ELSE S(<<"N","o">>)

\* detect_hdr(color_transfer)
detect_hdr(color_transfer) ==
    IF contains(lower(py_str(color_transfer)), <<"s","m","p","t","e","2","0","8","4">>)
       \/ contains(lower(py_str(color_transfer)), <<"h","l","g">>)
    THEN S(<<"Y","e","s">>) ELSE S(<<"N","o">>)

\* detect_bit_depth(pix_fmt, bits_per_raw_sample)
detect_bit_depth(pix_fmt, bits_per_raw_sample) ==
    IF contains(py_str(pix_fmt), <<"1","0">>) THEN S(<<"1","0">>)
    ELSE IF ~py_eq(bits_per_raw_sample, NA) THEN bits_per_raw_sample
    ELSE NA

\* the first side-data entry of a stream that is a DOVI configuration record
dovi_records(stream) ==
    LET side_data_list == dict_get(stream, "side_data_list", L(<<>>)).v
    IN  SelectSeq(side_data_list,
                  LAMBDA side_data :
                      py_eq(dict_get(side_data, "side_data_type", None),
                            S(<<"D","O","V","I"," ","c","o","n","f","i","g","u","r","a","t","i","o","n"," ","r","e","c","o","r","d">>)))

\* whether detect_dolby_vision_profile returns inside this stream's iteration
has_dovi(stream) ==
    \/ dovi_records(stream) # <<>>
    \/ "DOVI_PROFILE" \in DOMAIN dict_get(stream, "tags", D(<<>>)).v
    \/ "dv_profile" \in DOMAIN stream.v

\* what it returns there
dovi_of(stream) ==
    IF dovi_records(stream) # <<>> THEN dict_get(dovi_records(stream)[1], "dv_profile", None)
    ELSE IF "DOVI_PROFILE" \in DOMAIN dict_get(stream, "tags", D(<<>>)).v
    THEN dict_get(stream, "tags", D(<<>>)).v["DOVI_PROFILE"]
    ELSE stream.v["dv_profile"]

\* detect_dolby_vision_profile(video_streams)
RECURSIVE detect_dolby_vision_profile(_)
detect_dolby_vision_profile(video_streams) ==
    IF video_streams = <<>> THEN None
    ELSE IF has_dovi(video_streams[1]) THEN dovi_of(video_streams[1])
    ELSE detect_dolby_vision_profile(Tail(video_streams))

\* [stream for stream in details.get('streams', []) if stream.get('codec_type') == kind]
streams_of(details, kind) ==
    SelectSeq(dict_get(details, "streams", L(<<>>)).v,
              LAMBDA stream : py_eq(dict_get(stream, "codec_type", None), S(kind)))

\* extract_video_info(details); exc is the exception parse_frame_rate raised
extract_video_info(details) ==
    LET video_streams == streams_of(details, <<"v","i","d","e","o">>)
        parsed == parse_frame_rate(get_json_value(L(video_streams),
                                                  <<N(0), K("avg_frame_rate")>>, NA))
        first(key) == get_json_value(L(video_streams), <<N(0), K(key)>>, NA)
        color_transfer == first("color_transfer")
        pix_fmt == first("pix_fmt")
        bits_per_raw_sample == first("bits_per_raw_sample")
    IN  [codec |-> first("codec_name"),
         codec_long_name |-> first("codec_long_name"),
         profile |-> first("profile"),
         level |-> first("level"),
         bitrate |-> get_json_value(details, <<K("format"), K("bit_rate")>>, NA),
         width |-> first("width"),
         height |-> first("height"),
         color_space |-> first("color_space"),
         color_primaries |-> first("color_primaries"),
         color_transfer |-> color_transfer,
         color_range |-> first("color_range"),
         chroma_location |-> first("chroma_location"),
         field_order |-> first("field_order"),
         refs |-> first("refs"),
         bits_per_raw_sample |-> bits_per_raw_sample,
         pix_fmt |-> pix_fmt,
         frame_rate |-> IF parsed.exc = "" THEN parsed.v ELSE None,
         exc |-> parsed.exc,
         stream_count |-> I(Len(video_streams)),
         dolby_vision_profile |-> detect_dolby_vision_profile(video_streams),
         hdr |-> detect_hdr(color_transfer),
         bit_depth |-> detect_bit_depth(pix_fmt, bits_per_raw_sample)]

\* ", ".join(str(stream.get(key, 'N/A')) for stream in streams)
joined(streams, key) ==
    S(join(<<","," ">>, [k \in 1..Len(streams) |-> py_str(dict_get(streams[k], key, NA))]))

\* extract_audio_info(details)
extract_audio_info(details) ==
    LET audio_streams == streams_of(details, <<"a","u","d","i","o">>)
    IN  [codecs |-> joined(audio_streams, "codec_name"),
         codec_long_names |-> joined(audio_streams, "codec_long_name"),
         channels |-> joined(audio_streams, "channels"),
         sample_rates |-> joined(audio_streams, "sample_rate"),
         bitrates |-> joined(audio_streams, "bit_rate"),
         bit_depth |-> joined(audio_streams, "bits_per_raw_sample"),
         stream_count |-> I(Len(audio_streams))]

\* extract_subtitle_info(details)
extract_subtitle_info(details) ==
    LET subtitle_streams == streams_of(details, <<"s","u","b","t","i","t","l","e">>)
    IN  [languages |->
             S(join(<<","," ">>, [k \in 1..Len(subtitle_streams) |->
                      py_str(dict_get(dict_get(subtitle_streams[k], "tags", D(<<>>)),
                                      "language", NA))])),
         formats |-> joined(subtitle_streams, "codec_name"),
         stream_count |-> I(Len(subtitle_streams))]

\* the last component of a path and the path before it
basename(path) == LET parts == split(path, "/") IN parts[Len(parts)]
dirname(path) ==
    LET parts == split(path, "/") IN join(<<"/">>, SubSeq(parts, 1, Len(parts) - 1))

\* os.path.splitext(file)[1][1:]
extension_of(path) ==
    LET parts == split(basename(path), ".")
    IN  IF Len(parts) < 2 \/ (Len(parts) = 2 /\ parts[1] = <<>>) THEN <<>>
        ELSE parts[Len(parts)]

\* extract_file_info(file, details): file is the entry of the file list, with
\* what the file system says of it
extract_file_info(file, details) ==
    LET duration == py_float(get_json_value(details, <<K("format"), K("duration")>>, I(0)))
    IN  IF duration.exc # "" THEN Raise(duration.exc)
        ELSE Ok([file |-> S(file.path),
                 extension |-> S(extension_of(file.path)),
                 path |-> S(dirname(file.path)),
                 filename |-> S(basename(file.path)),
                 size |-> I(file.size),
                 creation_date |-> F(file.ctime, 1),
                 modification_date |-> F(file.mtime, 1),
                 container_format |-> get_json_value(details, <<K("format"), K("format_name")>>, NA),
                 duration |-> duration.v])

-----------------------------------------------------------------------------
(* file_processing.py: detect_issues.  The state of a call is the issues    *)
(* dict, the descriptions appended so far and the exception that ended it. *)

\* the keys of the issues dict, in the order the literal lists them
issue_names ==
    <<"Unknown metadata", "Non-standard video codec", "Non-standard audio codec",
      "Problematic subtitle format", "High bitrate", "Low bitrate",
      "Non-standard resolution", "Non-standard frame rate", "High bit depth",
      "HDR content", "4K content", "Complex video profile", "Variable frame rate",
      "Interlaced content", "High subtitle stream count", "Uncommon container format",
      "Very high bitrate", "Multiple audio streams", "Dolby Vision Profile 5">>

issue_set == {issue_names[k] : k \in 1..Len(issue_names)}

\* issues[name] = True, were no description appended
flag_silent(st, name, description) == [st EXCEPT !.issues[name] = TRUE]

\* issues[name] = True; issue_descriptions.append(description)
flag(st, name, description) ==
    [st EXCEPT !.issues[name] = TRUE, !.issue_descriptions = Append(@, description)]

throw(st, exc) == [st EXCEPT !.exc = exc]

\* x in [...] for a list of str
in_strs(x, strs) == \E k \in 1..Len(strs) : py_eq(x, S(strs[k]))

\* "Check for unknown or empty values"
check_unknown(st, video_info, audio_info, subtitle_info) ==
    IF st.exc # "" THEN st
    ELSE IF is_empty_or_na(video_info.codec) \/ is_empty_or_na(audio_info.codecs)
            \/ is_empty_or_na(subtitle_info.formats)
    THEN flag(st, "Unknown metadata", <<"S","o","m","e"," ","f","i","l","e"," ","i","n","f","o","r","m","a","t","i","o","n"," ","c","o","u","l","d","n","'","t"," ","b","e"," ","d","e","t","e","r","m","i","n","e","d">>)
    ELSE st

standard_video_codecs == <<<<"h","2","6","4">>, <<"h","e","v","c">>, <<"v","p","9">>, <<"a","v","1">>>>

\* "Video codec check"
check_video_codec(st, video_info) ==
    IF st.exc # "" THEN st
    ELSE IF video_info.codec.t # "str" THEN throw(st, "AttributeError")
    ELSE IF ~in_strs(S(lower(video_info.codec.v)), standard_video_codecs)
    THEN flag(st, "Non-standard video codec",
              <<"N","o","n","-","s","t","a","n","d","a","r","d"," ","v","i","d","e","o"," ","c","o","d","e","c",":"," ">> \o py_str(video_info.codec))
    ELSE st

standard_audio_codecs == <<<<"a","a","c">>, <<"a","c","3">>, <<"e","a","c","3">>, <<"m","p","3">>, <<"o","p","u","s">>>>

\* [x.strip().lower() for x in joined.split(',')]
codec_list(joined_codecs) ==
    LET parts == split(joined_codecs.v, ",")
    IN  [k \in 1..Len(parts) |-> lower(strip(parts[k]))]

\* the audio codec check, were the empty names of a file without audio skipped
check_audio_codec_named(st, audio_info) ==
    IF st.exc # "" THEN st
    ELSE LET non_standard_audio ==
                 SelectSeq(codec_list(audio_info.codecs),
                           LAMBDA ac : ac # <<>> /\ ~in_strs(S(ac), standard_audio_codecs))
         IN  IF non_standard_audio # <<>>
             THEN flag(st, "Non-standard audio codec",
                       <<"N","o","n","-","s","t","a","n","d","a","r","d"," ","a","u","d","i","o"," ","c","o","d","e","c","(","s",")",":"," ">> \o join(<<","," ">>, non_standard_audio))
             ELSE st

\* "Audio codec check"
check_audio_codec(st, audio_info) ==
    IF st.exc # "" THEN st
    ELSE LET non_standard_audio ==
                 SelectSeq(codec_list(audio_info.codecs),
                           LAMBDA ac : ~in_strs(S(ac), standard_audio_codecs))
         IN  IF non_standard_audio # <<>>
             THEN flag(st, "Non-standard audio codec",
                       <<"N","o","n","-","s","t","a","n","d","a","r","d"," ","a","u","d","i","o"," ","c","o","d","e","c","(","s",")",":"," ">> \o join(<<","," ">>, non_standard_audio))
             ELSE st

problematic_subtitle_formats == <<<<"d","v","d","_","s","u","b","t","i","t","l","e">>, <<"h","d","m","v","_","p","g","s","_","s","u","b","t","i","t","l","e">>, <<"d","v","b","_","s","u","b","t","i","t","l","e">>>>

\* "Subtitle format check"
check_subtitle_format(st, subtitle_info) ==
    IF st.exc # "" THEN st
    ELSE LET problematic_subs ==
                 SelectSeq(codec_list(subtitle_info.formats),
                           LAMBDA sf : in_strs(S(sf), problematic_subtitle_formats))
         IN  IF problematic_subs # <<>>
             THEN flag(st, "Problematic subtitle format",
                       <<"P","o","t","e","n","t","i","a","l","l","y"," ","p","r","o","b","l","e","m","a","t","i","c"," ","s","u","b","t","i","t","l","e"," ","f","o","r","m","a","t","(","s",")",":"," ">>
                       \o join(<<","," ">>, problematic_subs))
             ELSE st

\* f"{bitrate_value/1000000:.2f}"
mbps(bitrate_value) == format_fixed(bitrate_value, 1000000, 2)

\* the except ValueError branch of a numeric check on one field
unparsed(st, value, label) ==
    IF ~is_empty_or_na(value)
    THEN flag(st, "Unknown metadata", <<"U","n","a","b","l","e"," ","t","o"," ","p","a","r","s","e"," ">> \o label \o <<":"," ">> \o py_str(value))
    ELSE st

\* the bitrate check, were its upper threshold 200 Mbps
check_bitrate_200(st, video_info) ==
    IF st.exc # "" THEN st
    ELSE LET bitrate_value == py_int(video_info.bitrate)
         IN  IF bitrate_value.exc = "ValueError" THEN unparsed(st, video_info.bitrate, <<"b","i","t","r","a","t","e">>)
             ELSE IF bitrate_value.exc # "" THEN throw(st, bitrate_value.exc)
             ELSE IF bitrate_value.v.v > 200000000
             THEN flag(st, "High bitrate",
                       <<"H","i","g","h"," ","b","i","t","r","a","t","e"," ","(">> \o mbps(bitrate_value.v.v) \o <<" ","M","b","p","s",")"," ","m","a","y"," ","c","a","u","s","e"," ","b","u","f","f","e","r","i","n","g">>)
             ELSE IF bitrate_value.v.v < 1000000
             THEN flag(st, "Low bitrate",
                       <<"L","o","w"," ","b","i","t","r","a","t","e"," ","(">> \o mbps(bitrate_value.v.v)
                       \o <<" ","M","b","p","s",")"," ","m","a","y"," ","r","e","s","u","l","t"," ","i","n"," ","p","o","o","r"," ","q","u","a","l","i","t","y">>)
             ELSE st

\* "Bitrate check"
check_bitrate(st, video_info) ==
    IF st.exc # "" THEN st
    ELSE LET bitrate_value == py_int(video_info.bitrate)
         IN  IF bitrate_value.exc = "ValueError" THEN unparsed(st, video_info.bitrate, <<"b","i","t","r","a","t","e">>)
             ELSE IF bitrate_value.exc # "" THEN throw(st, bitrate_value.exc)
             ELSE IF bitrate_value.v.v > 20000000
             THEN flag(st, "High bitrate",
                       <<"H","i","g","h"," ","b","i","t","r","a","t","e"," ","(">> \o mbps(bitrate_value.v.v) \o <<" ","M","b","p","s",")"," ","m","a","y"," ","c","a","u","s","e"," ","b","u","f","f","e","r","i","n","g">>)
             ELSE IF bitrate_value.v.v < 1000000
             THEN flag(st, "Low bitrate",
                       <<"L","o","w"," ","b","i","t","r","a","t","e"," ","(">> \o mbps(bitrate_value.v.v)
                       \o <<" ","M","b","p","s",")"," ","m","a","y"," ","r","e","s","u","l","t"," ","i","n"," ","p","o","o","r"," ","q","u","a","l","i","t","y">>)
             ELSE st

standard_resolutions == {<<1920, 1080>>, <<3840, 2160>>, <<1280, 720>>, <<720, 480>>, <<720, 576>>}

\* "Resolution check"
check_resolution(st, video_info) ==
    IF st.exc # "" THEN st
    ELSE LET width_value == py_int(video_info.width)
             height_value == py_int(video_info.height)
             failed == IF width_value.exc # "" THEN width_value.exc ELSE height_value.exc
         IN  IF failed = "ValueError"
             THEN IF ~(is_empty_or_na(video_info.width) \/ is_empty_or_na(video_info.height))
                  THEN flag(st, "Unknown metadata",
                            <<"U","n","a","b","l","e"," ","t","o"," ","p","a","r","s","e"," ","r","e","s","o","l","u","t","i","o","n",":"," ">> \o py_str(video_info.width)
                            \o <<"x">> \o py_str(video_info.height))
                  ELSE st
             ELSE IF failed # "" THEN throw(st, failed)
             ELSE IF <<width_value.v.v, height_value.v.v>> \notin standard_resolutions
             THEN flag(st, "Non-standard resolution",
                       <<"N","o","n","-","s","t","a","n","d","a","r","d"," ","r","e","s","o","l","u","t","i","o","n",":"," ">> \o int_str(width_value.v.v)
                       \o <<"x">> \o int_str(height_value.v.v))
             ELSE st

\* [23.976, 24, 25, 29.97, 30, 50, 59.94, 60]
standard_frame_rates ==
    <<F(23976, 1000), I(24), I(25), F(2997, 100), I(30), I(50), F(5994, 100), I(60)>>

\* "Frame rate check"
check_frame_rate(st, video_info) ==
    IF st.exc # "" THEN st
    ELSE LET fps == py_float(video_info.frame_rate)
         IN  IF fps.exc = "ValueError" THEN unparsed(st, video_info.frame_rate, <<"f","r","a","m","e"," ","r","a","t","e">>)
             ELSE IF fps.exc # "" THEN throw(st, fps.exc)
             ELSE IF ~\E k \in 1..Len(standard_frame_rates) : py_eq(fps.v, standard_frame_rates[k])
             THEN flag(st, "Non-standard frame rate",
                       <<"N","o","n","-","s","t","a","n","d","a","r","d"," ","f","r","a","m","e"," ","r","a","t","e",":"," ">> \o float_str(fps.v) \o <<" ","f","p","s">>)
             ELSE st

\* "Check for high bit depth"
check_bit_depth(st, video_info) ==
    IF st.exc # "" THEN st
    ELSE IF ~in_strs(video_info.bit_depth, <<<<"8">>, <<"N","/","A">>>>)
    THEN flag(st, "High bit depth",
              <<"H","i","g","h"," ","b","i","t"," ","d","e","p","t","h"," ","v","i","d","e","o",":"," ">> \o py_str(video_info.bit_depth) \o <<"-","b","i","t">>)
    ELSE st

\* "Check for HDR content"
check_hdr(st, video_info) ==
    IF st.exc # "" THEN st
    ELSE IF py_eq(video_info.hdr, S(<<"Y","e","s">>))
    THEN flag(st, "HDR content", <<"H","D","R"," ","c","o","n","t","e","n","t"," ","m","a","y"," ","r","e","q","u","i","r","e"," ","t","o","n","e","-","m","a","p","p","i","n","g">>)
    ELSE st

\* "Check for 4K resolution"
check_4k(st, video_info) ==
    IF st.exc # "" THEN st
    ELSE IF py_eq(video_info.width, S(<<"3","8","4","0">>)) /\ py_eq(video_info.height, S(<<"2","1","6","0">>))
    THEN flag(st, "4K content", <<"4","K"," ","c","o","n","t","e","n","t"," ","m","a","y"," ","b","e"," ","d","e","m","a","n","d","i","n","g"," ","t","o"," ","t","r","a","n","s","c","o","d","e">>)
    ELSE st

complex_profiles == <<<<"H","i","g","h"," ","4",":","2",":","2">>, <<"H","i","g","h"," ","4",":","4",":","4">>>>

\* "Check for complex video profiles": cp in profile needs a str or a container
check_profile(st, video_info) ==
    IF st.exc # "" THEN st
    ELSE IF video_info.profile.t \in {"int", "float", "None"} THEN throw(st, "TypeError")
    ELSE IF video_info.profile.t = "str"
            /\ \E k \in 1..Len(complex_profiles) : contains(video_info.profile.v, complex_profiles[k])
    THEN flag(st, "Complex video profile",
              <<"C","o","m","p","l","e","x"," ","v","i","d","e","o"," ","p","r","o","f","i","l","e",":"," ">> \o py_str(video_info.profile))
    ELSE st

\* "Check for variable frame rate"
check_variable_frame_rate(st, video_info) ==
    IF st.exc # "" THEN st
    ELSE IF contains(video_info.frame_rate.v, <<",">>) \/ contains(video_info.frame_rate.v, <<"/">>)
    THEN flag(st, "Variable frame rate", <<"P","o","s","s","i","b","l","y"," ","v","a","r","i","a","b","l","e"," ","f","r","a","m","e"," ","r","a","t","e">>)
    ELSE st

\* "Check for interlaced content"
check_interlaced(st, video_info) ==
    IF st.exc # "" THEN st
    ELSE IF ~in_strs(video_info.field_order, <<<<"p","r","o","g","r","e","s","s","i","v","e">>, <<"N","/","A">>>>)
    THEN flag(st, "Interlaced content",
              <<"I","n","t","e","r","l","a","c","e","d"," ","c","o","n","t","e","n","t",":"," ">> \o py_str(video_info.field_order))
    ELSE st

\* "Check for multiple subtitle streams"
check_subtitle_count(st, subtitle_info) ==
    IF st.exc # "" THEN st
    ELSE LET subtitle_stream_count == py_int(subtitle_info.stream_count)
         IN  IF subtitle_stream_count.exc = "ValueError"
             THEN unparsed(st, subtitle_info.stream_count, <<"s","u","b","t","i","t","l","e"," ","s","t","r","e","a","m"," ","c","o","u","n","t">>)
             ELSE IF subtitle_stream_count.exc # "" THEN throw(st, subtitle_stream_count.exc)
             ELSE IF subtitle_stream_count.v.v > 5
             THEN flag(st, "High subtitle stream count",
                       <<"H","i","g","h"," ","n","u","m","b","e","r"," ","o","f"," ","s","u","b","t","i","t","l","e"," ","s","t","r","e","a","m","s",":"," ">> \o int_str(subtitle_stream_count.v.v))
             ELSE st

common_containers == <<<<"m","a","t","r","o","s","k","a">>, <<"m","o","v">>, <<"m","p","4">>, <<"a","v","i">>, <<"m","p","e","g","t","s">>>>

\* "Check for less common container formats"
check_container(st, file_info) ==
    IF st.exc # "" THEN st
    ELSE IF ~\E k \in 1..Len(common_containers) :
                 contains(lower(py_str(file_info.container_format)), common_containers[k])
    THEN flag(st, "Uncommon container format",
              <<"L","e","s","s"," ","c","o","m","m","o","n"," ","c","o","n","t","a","i","n","e","r"," ","f","o","r","m","a","t",":"," ">> \o py_str(file_info.container_format))
    ELSE st

\* "Check for very high bitrate"
check_very_high_bitrate(st, video_info) ==
    IF st.exc # "" THEN st
    ELSE LET bitrate_value == py_int(video_info.bitrate)
         IN  IF bitrate_value.exc = "ValueError" THEN unparsed(st, video_info.bitrate, <<"b","i","t","r","a","t","e">>)
             ELSE IF bitrate_value.exc # "" THEN throw(st, bitrate_value.exc)
             ELSE IF bitrate_value.v.v > 100000000
             THEN flag(st, "Very high bitrate",
                       <<"V","e","r","y"," ","h","i","g","h"," ","b","i","t","r","a","t","e"," ","(">> \o mbps(bitrate_value.v.v)
                       \o <<" ","M","b","p","s",")"," ","m","a","y"," ","s","l","o","w"," ","t","r","a","n","s","c","o","d","i","n","g">>)
             ELSE st

\* "Check for multiple audio streams"
check_audio_count(st, audio_info) ==
    IF st.exc # "" THEN st
    ELSE LET audio_stream_count == py_int(audio_info.stream_count)
         IN  IF audio_stream_count.exc = "ValueError"
             THEN unparsed(st, audio_info.stream_count, <<"a","u","d","i","o"," ","s","t","r","e","a","m"," ","c","o","u","n","t">>)
             ELSE IF audio_stream_count.exc # "" THEN throw(st, audio_stream_count.exc)
             ELSE IF audio_stream_count.v.v > 3
             THEN flag(st, "Multiple audio streams",
                       <<"M","u","l","t","i","p","l","e"," ","a","u","d","i","o"," ","s","t","r","e","a","m","s",":"," ">> \o int_str(audio_stream_count.v.v))
             ELSE st

\* "Check for Dolby Vision Profile 5"
check_dolby_vision(st, video_info) ==
    IF st.exc # "" THEN st
    ELSE IF py_eq(video_info.dolby_vision_profile, I(5))
    THEN flag(st, "Dolby Vision Profile 5",
              <<"D","o","l","b","y"," ","V","i","s","i","o","n"," ","P","r","o","f","i","l","e"," ","5"," ","d","e","t","e","c","t","e","d"," ","(","u","n","p","l","a","y","a","b","l","e"," ","i","n"," ","P","l","e","x",")">>)
    ELSE st

\* the issues dict and the description list, were they kept from the call
\* before instead of being built anew
issues_kept ==
    IF "calls" \in DOMAIN analysis /\ analysis.calls # <<>>
    THEN [issues |-> analysis.calls[Len(analysis.calls)].made.detected.issues,
          issue_descriptions |->
              analysis.calls[Len(analysis.calls)].made.detected.issue_descriptions,
          exc |-> ""]
    ELSE [issues |-> [name \in issue_set |-> FALSE], issue_descriptions |-> <<>>, exc |-> ""]

\* issues = {...: False, ...}; issue_descriptions = []
no_issues == [issues |-> [name \in issue_set |-> FALSE], issue_descriptions |-> <<>>, exc |-> ""]

\* detect_issues(file_info, video_info, audio_info, subtitle_info): the checks
\* in the order of the source; exc = "" is a normal return of
\* (issues, issue_descriptions)
detect_issues(file_info, video_info, audio_info, subtitle_info) ==
    check_dolby_vision(
    check_audio_count(
    check_very_high_bitrate(
    check_container(
    check_subtitle_count(
    check_interlaced(
    check_variable_frame_rate(
    check_profile(
    check_4k(
    check_hdr(
    check_bit_depth(
    check_frame_rate(
    check_resolution(
    check_bitrate(
    check_subtitle_format(
    check_audio_codec(
    check_video_codec(
    check_unknown(no_issues, video_info, audio_info, subtitle_info),
    video_info),
    audio_info),
    subtitle_info),
    video_info),
    video_info),
    video_info),
    video_info),
    video_info),
    video_info),
    video_info),
    video_info),
    video_info),
    subtitle_info),
    file_info),
    video_info),
    audio_info),
    video_info)
-----------------------------------------------------------------------------
(* media-inventory.py: the speed ratio and its tier *)

\* calculate_transcode_speed_ratio, were a frame rate that is no number an
\* error instead of 24 fps
calculate_transcode_speed_ratio_strict(transcode_speed, frame_rate) ==
    LET parsed_rate == py_float(frame_rate)
        speed == py_float(transcode_speed)
    IN  IF parsed_rate.exc # "" \/ speed.exc # "" \/ parsed_rate.v.n = 0 THEN Error
        ELSE F(speed.v.n * parsed_rate.v.d, speed.v.d * parsed_rate.v.n)

\* calculate_transcode_speed_ratio(transcode_speed, frame_rate)
calculate_transcode_speed_ratio(transcode_speed, frame_rate) ==
    LET parsed_rate == py_float(frame_rate)
        rate == IF parsed_rate.exc # "" THEN F(24, 1) ELSE parsed_rate.v
        speed == py_float(transcode_speed)
    IN  IF speed.exc # "" \/ rate.n = 0 THEN Error
        ELSE F(speed.v.n * rate.d, speed.v.d * rate.n)

\* get_transcode_speed_group, were its bounds closed on the right
get_transcode_speed_group_closed(speed_ratio) ==
    IF py_eq(speed_ratio, Error) THEN Error
    ELSE LET ratio == py_float(speed_ratio)
         IN  IF ratio.exc # "" THEN Error
             ELSE IF ~num_lt(F(12, 10), ratio.v) THEN S(<<"F","a","i","l","e","d">>)
             ELSE IF ~num_lt(I(2), ratio.v) THEN S(<<"L","o","w">>)
             ELSE IF ~num_lt(I(3), ratio.v) THEN S(<<"M","e","d","i","u","m">>)
             ELSE S(<<"H","i","g","h">>)

\* get_transcode_speed_group(speed_ratio)
get_transcode_speed_group(speed_ratio) ==
    IF py_eq(speed_ratio, Error) THEN Error
    ELSE LET ratio == py_float(speed_ratio)
         IN  IF ratio.exc # "" THEN Error
             ELSE IF num_lt(ratio.v, F(12, 10)) THEN S(<<"F","a","i","l","e","d">>)
             ELSE IF ~num_lt(ratio.v, F(12, 10)) /\ num_lt(ratio.v, I(2)) THEN S(<<"L","o","w">>)
             ELSE IF ~num_lt(ratio.v, I(2)) /\ num_lt(ratio.v, I(3)) THEN S(<<"M","e","d","i","u","m">>)
             ELSE S(<<"H","i","g","h">>)

-----------------------------------------------------------------------------
(* file_processing.py: the transcode sampler's bookkeeping *)

\* what simulate_transcoding would append, were "Aborted" not told apart
sample_result_plain(speed, frame_rate) ==
    [speed |-> speed, ratio |-> calculate_transcode_speed_ratio(speed, frame_rate),
     group |-> get_transcode_speed_group(calculate_transcode_speed_ratio(speed, frame_rate))]

\* what simulate_transcoding appends for one sample, given what
\* simulate_plex_transcoding returned for it
sample_result(speed, frame_rate) ==
    IF py_eq(speed, S(<<"A","b","o","r","t","e","d">>))
    THEN [speed |-> S(<<"<","1">>), ratio |-> S(<<"<","1">>), group |-> S(<<"L","o","w">>)]
    ELSE LET speed_ratio == calculate_transcode_speed_ratio(speed, frame_rate)
         IN  [speed |-> speed, ratio |-> speed_ratio,
              group |-> get_transcode_speed_group(speed_ratio)]

\* simulate_transcoding's "Error checking": the sample duration, or None when
\* it returns [], [], [] without sampling
sample_duration_of(file_duration, user_duration) ==
    IF file_duration.t = "None" \/ user_duration.t = "None" THEN None
    ELSE LET fd == py_float(file_duration)
             ud == py_float(user_duration)
         IN  IF fd.exc # "" \/ ud.exc # "" THEN None
             ELSE LET sample_duration == IF num_lt(ud.v, fd.v) THEN ud.v ELSE fd.v
                  IN  IF ~num_lt(I(0), sample_duration) THEN None ELSE sample_duration

\* the three lists simulate_transcoding appends to
sample_lists(appended) ==
    [transcode_speeds |-> [k \in DOMAIN appended |-> appended[k].speed],
     transcode_speed_ratios |-> [k \in DOMAIN appended |-> appended[k].ratio],
     transcode_speed_groups |-> [k \in DOMAIN appended |-> appended[k].group]]

\* simulate_transcoding(file, file_duration, user_duration, samples, hwaccel,
\* frame_rate, debug_level), given what simulate_plex_transcoding returns for
\* each sample in turn
simulate_transcoding(file_duration, user_duration, samples, frame_rate, returned) ==
    IF sample_duration_of(file_duration, user_duration) = None
    THEN sample_lists(<<>>)
    ELSE sample_lists([k \in 1..samples |-> sample_result(returned[k], frame_rate)])

-----------------------------------------------------------------------------
(* file_processing.py: run_ffprobe, compile_results, process_file *)

\* run_ffprobe, were CalledProcessError not caught either
run_ffprobe_uncaught(ffprobe) ==
    IF ~ffprobe.started THEN Raise("FileNotFoundError")
    ELSE IF ffprobe.returncode # 0 THEN Raise("CalledProcessError")
    ELSE IF ~ffprobe.json THEN Raise("JSONDecodeError")
    ELSE Ok(ffprobe.details)

\* run_ffprobe(command, debug_level), given what became of the subprocess:
\* only CalledProcessError is caught
run_ffprobe(ffprobe) ==
    IF ~ffprobe.started THEN Raise("FileNotFoundError")
    ELSE IF ffprobe.returncode # 0 THEN Ok(None)
    ELSE IF ~ffprobe.json THEN Raise("JSONDecodeError")
    ELSE Ok(ffprobe.details)

\* analyze_file_metadata(file_path, debug_level)
analyze_file_metadata(ffprobe) == run_ffprobe(ffprobe)

\* compile_results(file_info, video_info, audio_info, subtitle_info, issues,
\* issue_descriptions, transcode_results, concat_separator)
compile_results(file_info, video_info, audio_info, subtitle_info, issues, issue_descriptions, transcode_results, concat_separator) ==
    <<file_info.file, file_info.extension, file_info.path, file_info.filename,
      file_info.size, file_info.container_format,
      video_info.codec, video_info.codec_long_name, video_info.profile, video_info.level,
      video_info.bitrate, video_info.width, video_info.height,
      video_info.color_space, video_info.color_primaries, video_info.color_transfer,
      video_info.color_range, video_info.chroma_location,
      video_info.field_order, video_info.refs, video_info.bits_per_raw_sample,
      video_info.pix_fmt, video_info.hdr, video_info.bit_depth,
      file_info.duration, video_info.frame_rate,
      audio_info.codecs, audio_info.codec_long_names, audio_info.channels,
      audio_info.sample_rates, audio_info.bitrates, audio_info.bit_depth,
      audio_info.stream_count,
      subtitle_info.languages, subtitle_info.formats, subtitle_info.stream_count,
      file_info.creation_date, file_info.modification_date,
      IF \E name \in issue_set : issues[name] THEN S(<<"1">>) ELSE S(<<"0">>),
      IF issue_descriptions # <<>> THEN S(join(concat_separator, sorted(issue_descriptions)))
      ELSE S(<<"N","o","n","e">>)>>
    \o [k \in 1..Len(issue_names) |-> IF issues[issue_names[k]] THEN S(<<"1">>) ELSE S(<<"0">>)]
    \o transcode_results.transcode_speeds
    \o transcode_results.transcode_speed_ratios
    \o transcode_results.transcode_speed_groups

\* ["Error"] * 40
error_record == [k \in 1..40 |-> Error]

\* process_file from "Compile results" on: the record, unless detect_issues
\* raised
compiled(file_info, video_info, audio_info, subtitle_info, detected, transcode_results, concat_separator) ==
    IF detected.exc # "" THEN Raise(detected.exc)
    ELSE Ok(compile_results(file_info, video_info, audio_info, subtitle_info,
                            detected.issues, detected.issue_descriptions,
                            transcode_results, concat_separator))

\* process_file from the duration test on: "Detect issues", "Simulate
\* transcoding if required", "Compile results"
analyzed(duration, samples, concat_separator, file_info, video_info, audio_info, subtitle_info, returned) ==
    IF file_info.exc # "" THEN Raise(file_info.exc)
    ELSE IF video_info.exc # "" THEN Raise(video_info.exc)
    ELSE IF ~num_lt(I(0), file_info.v.duration) THEN Ok(error_record)
    ELSE compiled(file_info.v, video_info, audio_info, subtitle_info,
                  detect_issues(file_info.v, video_info, audio_info, subtitle_info),
                  IF samples > 0
                  THEN simulate_transcoding(file_info.v.duration, duration, samples,
                                            video_info.frame_rate, returned)
                  ELSE sample_lists(<<>>),
                  concat_separator)

\* process_file once analyze_file_metadata has returned
probed_file(file, duration, samples, concat_separator, details, returned) ==
    IF details.exc # "" THEN Raise(details.exc)
    ELSE IF details.v = None THEN Ok(error_record)
    ELSE analyzed(duration, samples, concat_separator,
                  extract_file_info(file, details.v), extract_video_info(details.v),
                  extract_audio_info(details.v), extract_subtitle_info(details.v), returned)

\* process_file(file, duration, samples, concat_separator, hwaccel,
\* debug_level), given what became of the probe and of each transcoder run:
\* the record it returns, or the exception that leaves it
process_file(file, duration, samples, concat_separator, ffprobe, returned) ==
    probed_file(file, duration, samples, concat_separator, analyze_file_metadata(ffprobe),
                returned)

-----------------------------------------------------------------------------
(* Probe documents: what json.loads makes of ffprobe's stdout *)

\* d with d[key] = value
with_key(d, key, value) ==
    D([k \in DOMAIN d.v \cup {key} |-> IF k = key THEN value ELSE d.v[k]])

\* d without key
without_key(d, key) == D([k \in DOMAIN d.v \ {key} |-> d.v[k]])

\* the document of the spec's end-to-end scenario 1
Scenario1 ==
    D([format |-> D([duration |-> S(<<"1","2","0",".","5">>), bit_rate |-> S(<<"5","0","0","0","0","0","0">>),
                     format_name |-> S(<<"m","a","t","r","o","s","k","a",",","w","e","b","m">>)]),
       streams |-> L(<<D([codec_type |-> S(<<"v","i","d","e","o">>), codec_name |-> S(<<"h","2","6","4">>),
                          width |-> S(<<"1","9","2","0">>), height |-> S(<<"1","0","8","0">>),
                          avg_frame_rate |-> S(<<"2","4","0","0","0","/","1","0","0","1">>),
                          color_transfer |-> S(<<"b","t","7","0","9">>), pix_fmt |-> S(<<"y","u","v","4","2","0","p">>)])>>)])

\* a field left out of the document
Absent == [t |-> "absent"]

\* doc with one field of its format section, or of its first stream, replaced
\* (Absent: removed)
edit_format(details, key, value) ==
    with_key(details, "format",
             IF value = Absent THEN without_key(details.v.format, key)
             ELSE with_key(details.v.format, key, value))

edit_video(details, key, value) ==
    LET streams == details.v.streams.v
        video == IF value = Absent THEN without_key(streams[1], key)
                 ELSE with_key(streams[1], key, value)
    IN  with_key(details, "streams", L(<<video>> \o Tail(streams)))

\* doc with more streams after those it has
add_streams(details, streams) ==
    with_key(details, "streams", L(details.v.streams.v \o streams))

\* the document of scenario 2
Scenario2 ==
    edit_video(edit_video(edit_video(Scenario1, "width", S(<<"7","6","8","0">>)),
                          "height", S(<<"4","3","2","0">>)), "color_transfer", S(<<"s","m","p","t","e","2","0","8","4">>))

\* 3840x2160 as ffprobe prints it (numbers) and as the spec's scenarios write
\* it (strings)
Doc4KInt == edit_video(edit_video(Scenario1, "width", I(3840)), "height", I(2160))
Doc4KStr == edit_video(edit_video(Scenario1, "width", S(<<"3","8","4","0">>)), "height", S(<<"2","1","6","0">>))

audio_stream(codec_name) == D([codec_type |-> S(<<"a","u","d","i","o">>), codec_name |-> S(codec_name)])
subtitle_stream(codec_name) == D([codec_type |-> S(<<"s","u","b","t","i","t","l","e">>), codec_name |-> S(codec_name)])
video_stream(codec_name) ==
    D([codec_type |-> S(<<"v","i","d","e","o">>), codec_name |-> S(codec_name), profile |-> S(<<"M","a","i","n">>),
       level |-> I(120)])

\* scenario 1 with the streams a usual file has beside its video
DocPlain ==
    add_streams(Scenario1, <<audio_stream(<<"a","a","c">>), subtitle_stream(<<"s","u","b","r","i","p">>)>>)

BaseDocs == {Scenario1, Scenario2, Doc4KInt, Doc4KStr, DocPlain}

\* the values one field of a document is varied over
FieldValues ==
    [bit_rate |-> {S(<<"2","5","0","0","0","0","0","0">>), S(<<"1","5","0","0","0","0","0","0","0">>), S(<<"5","0","0","0","0","0">>), I(5000000), S(<<"a","b","c">>),
                   S(<<"N","/","A">>), None, Absent},
     format_name |-> {S(<<"a","s","f">>), Absent},
     duration |-> {S(<<"0",".","0">>), Absent},
     width |-> {I(1920), I(3840), S(<<"3","8","4","0">>), S(<<"w","i","d","e">>), S(<<"N","/","A">>), None, Absent},
     height |-> {I(1080), I(2160), S(<<"2","1","6","0">>), S(<<"t","a","l","l">>), None, Absent},
     avg_frame_rate |-> {S(<<"2","5","/","1">>), S(<<"3","0">>), S(<<"1","0","/","1">>), S(<<"0","/","0">>), I(25), None, Absent},
     codec_name |-> {S(<<"H","E","V","C">>), S(<<"m","p","e","g","2","v","i","d","e","o">>), Absent},
     color_transfer |-> {S(<<"a","r","i","b","-","s","t","d","-","b","6","7">>), S(<<"H","L","G">>), Absent},
     pix_fmt |-> {S(<<"y","u","v","4","2","0","p","1","0","l","e">>)},
     bits_per_raw_sample |-> {S(<<"8">>), S(<<"1","2">>)},
     profile |-> {S(<<"H","i","g","h">>), S(<<"H","i","g","h"," ","4",":","4",":","4"," ","P","r","e","d","i","c","t","i","v","e">>)},
     field_order |-> {S(<<"p","r","o","g","r","e","s","s","i","v","e">>), S(<<"t","t">>)}]

FormatFields == {"bit_rate", "format_name", "duration"}

StreamSets ==
    {<<audio_stream(<<"a","a","c">>)>>, <<audio_stream(<<"d","t","s">>)>>,
     <<D([codec_type |-> S(<<"a","u","d","i","o">>)])>>,
     <<audio_stream(<<"a","a","c">>), audio_stream(<<"a","c","3">>), audio_stream(<<"a","a","c">>), audio_stream(<<"a","a","c">>)>>,
     <<subtitle_stream(<<"s","u","b","r","i","p">>)>>, <<subtitle_stream(<<"h","d","m","v","_","p","g","s","_","s","u","b","t","i","t","l","e">>)>>,
     [k \in 1..6 |-> subtitle_stream(<<"s","u","b","r","i","p">>)],
     <<video_stream(<<"h","e","v","c">>)>>, <<video_stream(<<"m","p","e","g","2","v","i","d","e","o">>), video_stream(<<"v","p","9">>)>>}

\* the documents one edit away from details
edits_of(details) ==
    UNION {{IF key \in FormatFields THEN edit_format(details, key, value)
            ELSE edit_video(details, key, value) : value \in FieldValues[key]} :
           key \in DOMAIN FieldValues}
    \cup {add_streams(details, streams) : streams \in StreamSets}

\* the documents at most n edits away from the base documents
RECURSIVE DocSpace(_)
DocSpace(n) ==
    IF n = 0 THEN BaseDocs
    ELSE LET closer == DocSpace(n - 1)
         IN  closer \cup UNION {edits_of(details) : details \in closer}

MaxEdits == 1

\* the entry of the file list analysed, and what the file system says of it
file_entry(k) ==
    [path |-> <<"/","m","e","d","i","a","/","f">> \o nat_str(k) \o <<".","m","k","v">>, size |-> 734003200 + k,
     ctime |-> 1000000, mtime |-> 1000000 + k]

\* args.concat's default
concat_default == <<";"," ">>

\* a probe that ran, exited 0 and printed details
probed(details) == [started |-> TRUE, returncode |-> 0, json |-> TRUE, details |-> details]

-----------------------------------------------------------------------------
(* main.py: the batch loop *)

MaxFiles == 2
MaxSamples == 2

\* the ways main is started by the __main__ block: -i, -r and -f
Modes == {"input", "resume", "file_list"}

\* -t: absent (None), or a number of seconds
Durations == {None, I(30)}

\* a probe document that is complete but for its duration
DocNoDuration == edit_format(DocPlain, "duration", Absent)

\* a probe document whose bit_rate is JSON null
DocNullBitrate == edit_format(DocPlain, "bit_rate", None)

\* what can become of the ffprobe subprocess of one file
ProbeOutcomes ==
    {[started |-> FALSE, returncode |-> 0, json |-> FALSE, details |-> None],
     [started |-> TRUE, returncode |-> 1, json |-> FALSE, details |-> None],
     [started |-> TRUE, returncode |-> 0, json |-> FALSE, details |-> None]}
    \cup {probed(details) : details \in {DocPlain, DocNoDuration, DocNullBitrate}}

NotRun == [started |-> FALSE, returncode |-> 0, json |-> FALSE, details |-> S(<<"n","o","t"," ","r","u","n">>)]

\* what simulate_plex_transcoding can return for one sample
SamplerReturns == {F(72, 1), S(<<"A","b","o","r","t","e","d">>), S(<<"E","r","r","o","r">>)}

\* the header row main writes
base_headers ==
    <<"File", "Extension", "Path", "Filename", "Filesize", "Container Format",
      "Video Codec", "Codec Long Name", "Profile", "Level", "Bitrate", "Width", "Height",
      "Color Space", "Color Primaries", "Color Transfer", "Color Range", "Chroma Location",
      "Field Order", "Refs", "Bits Per Raw Sample", "Pix Format", "HDR", "Bit Depth",
      "Duration", "Frame Rate", "Audio Codecs", "Audio Codec Long Names", "Audio Channels",
      "Audio Sample Rates", "Audio Bitrates", "Audio Bit Depth", "Audio Stream Count",
      "Subtitle Languages", "Subtitle Formats", "Subtitle Stream Count",
      "Creation Date", "Modification Date", "Issues Detected", "Issue Description">>

RECURSIVE sample_headers(_)
sample_headers(samples) ==
    IF samples = 0 THEN <<>>
    ELSE sample_headers(samples - 1)
         \o <<<<"Transcode Speed", samples>>, <<"Speed Ratio", samples>>,
              <<"Performance", samples>>>>

headers_of(samples) == base_headers \o issue_names \o sample_headers(samples)

\* what csv.writer writes for one field: None as the empty string, a string
\* as it is, anything else through str()
csv_field(value) == IF value = None THEN <<>> ELSE py_str(value)

\* writer.writerow(result)
writerow(row) == [k \in 1..Len(row) |-> csv_field(row[k])]

\* the stats dictionary main starts from
new_stats(total) ==
    [total |-> total, processed |-> 0, error |-> 0, failed |-> 0, low |-> 0,
     medium |-> 0, high |-> 0, no_issues |-> 0, with_issues |-> 0]

\* "Update stats based on result": result[-2] and result[36]
tier_counter(record) ==
    LET status == record[Len(record) - 1]
    IN  IF py_eq(status, S(<<"E","r","r","o","r">>)) THEN "error"
        ELSE IF py_eq(status, S(<<"F","a","i","l","e","d">>)) THEN "failed"
        ELSE IF py_eq(status, S(<<"L","o","w">>)) THEN "low"
        ELSE IF py_eq(status, S(<<"M","e","d","i","u","m">>)) THEN "medium"
        ELSE IF py_eq(status, S(<<"H","i","g","h">>)) THEN "high"
        ELSE "none"

issue_counter(record) ==
    IF py_eq(record[37], S(<<"0">>)) THEN "no_issues" ELSE "with_issues"

update_stats(st, record) ==
    LET tier == tier_counter(record)
        tiered == IF tier = "none" THEN st ELSE [st EXCEPT ![tier] = @ + 1]
    IN  [tiered EXCEPT ![issue_counter(record)] = @ + 1]

NoException == [exc |-> "", at |-> ""]

\* nothing analysed, no sampler running
NoAnalysis == [done |-> FALSE]
NoSampler == [pc |-> "idle"]
NoCall == [exc |-> "no call"]
NoFix == [pc |-> "idle"]

\* the state a run of main starts in: the directory holds 0..MaxFiles files;
\* a resumed run finds the list, its cursor and the CSV an earlier run left
Init ==
    /\ args \in [mode : Modes, samples : 0..MaxSamples, duration : Durations]
    /\ \E n \in 0..MaxFiles : file_list = [k \in 1..n |-> file_entry(k)]
    /\ cursor \in IF args.mode = "resume" THEN 0..Len(file_list) ELSE {0}
    /\ pc = "start"
    /\ i = 0
    /\ result = <<>>
    /\ call = NoCall
    /\ raised = NoException
    /\ probe = NotRun
    /\ csv = IF args.mode = "resume"
             THEN [headers |-> headers_of(args.samples),
                   rows |-> [k \in 1..cursor |-> writerow(error_record)]]
             ELSE [headers |-> <<>>, rows |-> <<>>]
    /\ stats = new_stats(0)
    /\ doc = None
    /\ analysis = NoAnalysis
    /\ tc = NoSampler
    /\ fix = NoFix

\* main up to its loop: the file list is generated or read, the CSV is opened
\* for writing and gets its header row
Start ==
    /\ pc = "start"
    /\ IF args.mode = "file_list"
       THEN \* read_file_list's pair is iterated as if it were the list:
            \* os.path.isfile is handed a list
            /\ raised' = [exc |-> "TypeError", at |-> "main"]
            /\ pc' = "aborted"
            /\ UNCHANGED <<i, csv, stats>>
       ELSE IF Len(file_list) = 0
       THEN /\ pc' = "done"
            /\ UNCHANGED <<i, csv, stats, raised>>
       ELSE /\ csv' = [headers |-> headers_of(args.samples), rows |-> <<>>]
            /\ stats' = new_stats(Len(file_list))
            /\ i' = cursor
            /\ pc' = IF cursor < Len(file_list) THEN "process" ELSE "report"
            /\ UNCHANGED raised
    /\ UNCHANGED <<args, file_list, cursor, result, call, probe, doc, analysis, tc, fix>>

\* result = process_file(file_path, duration, samples, concat_separator, ...):
\* the probe and the transcoder runs do what they do, and the call returns a
\* record or raises
ProcessFile ==
    /\ pc = "process"
    /\ \E ffprobe \in ProbeOutcomes :
       \E returned \in [1..args.samples -> SamplerReturns] :
          /\ probe' = ffprobe
          /\ call' = process_file(file_list[i + 1], args.duration, args.samples,
                                  concat_default, ffprobe, returned)
    /\ pc' = "returned"
    /\ UNCHANGED <<args, file_list, cursor, i, result, raised, csv, stats, doc, analysis, tc, fix>>

\* an exception leaves main for the except clause of the __main__ block;
\* otherwise stats["processed"] += 1
Returned ==
    /\ pc = "returned"
    /\ IF call.exc # ""
       THEN /\ raised' = [exc |-> call.exc, at |-> "process_file"]
            /\ pc' = "aborted"
            /\ UNCHANGED <<result, stats>>
       ELSE /\ result' = call.v
            /\ stats' = [stats EXCEPT !.processed = @ + 1]
            /\ pc' = "write"
            /\ UNCHANGED raised
    /\ call' = NoCall
    /\ UNCHANGED <<args, file_list, cursor, i, probe, csv, doc, analysis, tc, fix>>

\* writer.writerow(result); csvfile.flush()
WriteRow ==
    /\ pc = "write"
    /\ csv' = [csv EXCEPT !.rows = Append(@, writerow(result))]
    /\ pc' = "stats"
    /\ UNCHANGED <<args, file_list, cursor, i, result, call, raised, probe, stats, doc, analysis, tc, fix>>

\* the two if-chains on result[-2] and result[36]
UpdateStats ==
    /\ pc = "stats"
    /\ stats' = update_stats(stats, result)
    /\ pc' = "cursor"
    /\ UNCHANGED <<args, file_list, cursor, i, result, call, raised, probe, csv, doc, analysis, tc, fix>>

\* update_cursor(file_list_path, i + 1), then the next iteration;
\* file_list_path is only bound by the branch that generates the list
UpdateCursor ==
    /\ pc = "cursor"
    /\ IF args.mode = "resume"
       THEN /\ raised' = [exc |-> "UnboundLocalError", at |-> "main"]
            /\ pc' = "aborted"
            /\ UNCHANGED <<cursor, i>>
       ELSE /\ cursor' = i + 1
            /\ i' = i + 1
            /\ pc' = IF i + 1 < Len(file_list) THEN "process" ELSE "report"
            /\ UNCHANGED raised
    /\ UNCHANGED <<args, file_list, result, call, probe, csv, stats, doc, analysis, tc, fix>>

\* the loop is over: the report is generated and main returns
Finish ==
    /\ pc = "report"
    /\ pc' = "done"
    /\ UNCHANGED <<args, file_list, cursor, i, result, call, raised, probe, csv, stats, doc,
                   analysis, tc, fix>>

Next == Start \/ ProcessFile \/ Returned \/ WriteRow \/ UpdateStats \/ UpdateCursor \/ Finish

Spec == Init /\ [][Next]_vars

-----------------------------------------------------------------------------
(* The analysis of one document: process_file without transcode samples *)

\* what process_file computes on the way to its result
analysis_record(file_info, video_info, audio_info, subtitle_info, result_) ==
    [done |-> TRUE,
     video_info |-> video_info,
     audio_info |-> audio_info,
     subtitle_info |-> subtitle_info,
     detected |-> IF file_info.exc = "" /\ video_info.exc = ""
                     /\ num_lt(I(0), file_info.v.duration)
                  THEN detect_issues(file_info.v, video_info, audio_info, subtitle_info)
                  ELSE [exc |-> "not called"],
     result |-> result_]

analysis_of(file, details) ==
    analysis_record(extract_file_info(file, details), extract_video_info(details),
                    extract_audio_info(details), extract_subtitle_info(details),
                    process_file(file, None, 0, concat_default, probed(details), <<>>))

MainIdle ==
    /\ args = [mode |-> "input", samples |-> 0, duration |-> None]
    /\ file_list = <<>>
    /\ cursor = 0
    /\ pc = "idle"
    /\ i = 0
    /\ result = <<>>
    /\ call = NoCall
    /\ raised = NoException
    /\ probe = NotRun
    /\ csv = [headers |-> <<>>, rows |-> <<>>]
    /\ stats = new_stats(0)

InitDetect ==
    /\ MainIdle
    /\ fix = NoFix
    /\ tc = NoSampler
    /\ doc \in DocSpace(MaxEdits)
    /\ analysis = NoAnalysis

Analyze ==
    /\ ~analysis.done
    /\ analysis' = analysis_of(file_entry(1), doc)
    /\ UNCHANGED <<args, file_list, cursor, pc, i, result, call, raised, probe, csv, stats, doc, tc, fix>>

NextDetect == Analyze

SpecDetect == InitDetect /\ [][NextDetect]_vars

-----------------------------------------------------------------------------
(* file_processing.py: simulate_transcoding and simulate_plex_transcoding,   *)
(* step by step, with the transcoder process and the wall clock.  Time is    *)
(* counted in ticks of 0.1 s, the period of the polling loop.                *)

TicksPerSecond == 10

\* the modelled clock runs this many ticks past a launch (longer while a
\* sleep is pending)
MaxElapsed == 62

\* what simulate_transcoding is called with
FileDurations == {F(1, 2), F(241, 2)}
UserDurations == {None, I(0), I(1)}
FrameRates == {S(<<"2","4",".","0","0","0">>)}

\* what re.search(r'speed=\s*([\d.]+)x', stderr) finds: no match, or group 1
SpeedMatches == {None, S(<<"2","8",".","8">>)}

\* a + b on numbers
num_add(a, b) == F(num_of(a) * den_of(b) + num_of(b) * den_of(a), den_of(a) * den_of(b))

\* time.time() - start_time > duration + 5
too_long(elapsed, duration) == num_lt(num_add(duration, I(5)), F(elapsed, TicksPerSecond))

\* what simulate_plex_transcoding returns once communicate() has returned
speed_of(return_code, match) ==
    IF return_code = 0
    THEN IF match # None
         THEN LET speed == py_float(match)
              IN  IF speed.exc # "" THEN Error ELSE speed.v
         ELSE NA
    ELSE Error

\* transcode_speeds.append(...) and the two appends beside it
appended(t, speed) ==
    LET sample == sample_result(speed, t.frame_rate)
    IN  [t EXCEPT !.transcode_speeds = Append(@, sample.speed),
                  !.transcode_speed_ratios = Append(@, sample.ratio),
                  !.transcode_speed_groups = Append(@, sample.group)]

\* what the sampler leaves alone
main_vars ==
    <<args, file_list, cursor, pc, i, result, call, raised, probe, csv, stats, doc, analysis,
      fix>>

InitTranscode ==
    /\ MainIdle
    /\ fix = NoFix
    /\ doc = None
    /\ analysis = NoAnalysis
    /\ \E file_duration \in FileDurations, user_duration \in UserDurations,
          samples \in 1..MaxSamples, frame_rate \in FrameRates :
          tc = [pc |-> "called", file_duration |-> file_duration,
                user_duration |-> user_duration, samples |-> samples,
                frame_rate |-> frame_rate, sample_duration |-> None, k |-> 0,
                transcode_speeds |-> <<>>, transcode_speed_ratios |-> <<>>,
                transcode_speed_groups |-> <<>>,
                process |-> "none", signals |-> {}, late |-> FALSE,
                elapsed |-> 0, wake |-> 0, return_code |-> None, speed |-> None]

\* simulate_transcoding up to its loop: "Error checking"
EnterSampler ==
    /\ tc.pc = "called"
    /\ tc' = LET sample_duration == sample_duration_of(tc.file_duration, tc.user_duration)
             IN  IF sample_duration = None THEN [tc EXCEPT !.pc = "done"]
                 ELSE [tc EXCEPT !.pc = "launch", !.sample_duration = sample_duration]
    /\ UNCHANGED main_vars

\* subprocess.Popen(command, ...); start_time = time.time().  Popen raises
\* when the transcoder cannot be started, and the except clause returns
\* "Error"
Launch ==
    /\ tc.pc = "launch"
    /\ \E started \in BOOLEAN :
          tc' = IF started
                THEN [tc EXCEPT !.pc = "poll", !.process = "running", !.signals = {},
                                !.late = FALSE, !.elapsed = 0, !.return_code = None]
                ELSE [tc EXCEPT !.pc = "return", !.process = "none", !.speed = Error]
    /\ UNCHANGED main_vars

\* return_code = process.poll(); break when it is not None
Poll ==
    /\ tc.pc = "poll"
    /\ tc' = IF tc.process = "running" THEN [tc EXCEPT !.pc = "check"]
             ELSE [tc EXCEPT !.pc = "communicate",
                             !.return_code = IF tc.process = "exited 0" THEN 0 ELSE 1]
    /\ UNCHANGED main_vars

\* if time.time() - start_time > duration + 5: process.send_signal(SIGINT),
\* then time.sleep(1); otherwise time.sleep(0.1)
Check ==
    /\ tc.pc = "check"
    /\ tc' = IF too_long(tc.elapsed, tc.sample_duration)
             THEN [tc EXCEPT !.pc = "grace", !.wake = tc.elapsed + TicksPerSecond,
                             !.signals = IF tc.process = "running" THEN {"SIGINT"} ELSE {}]
             ELSE [tc EXCEPT !.pc = "sleep", !.wake = tc.elapsed + 1]
    /\ UNCHANGED main_vars

\* time.sleep(0.1) returns
Sleep ==
    /\ tc.pc = "sleep"
    /\ tc.elapsed >= tc.wake
    /\ tc' = [tc EXCEPT !.pc = "poll", !.wake = 0]
    /\ UNCHANGED main_vars

\* time.sleep(1) returns; if process.poll() is None: process.terminate();
\* return "Aborted"
Abort ==
    /\ tc.pc = "grace"
    /\ tc.elapsed >= tc.wake
    /\ tc' = [tc EXCEPT !.pc = "return", !.speed = S(<<"A","b","o","r","t","e","d">>), !.wake = 0,
                        !.signals = IF tc.process = "running" THEN @ \cup {"SIGTERM"} ELSE @]
    /\ UNCHANGED main_vars

\* stdout, stderr = process.communicate(), the search for the speed and the
\* return
Communicate ==
    /\ tc.pc = "communicate"
    /\ \E match \in SpeedMatches :
          tc' = [tc EXCEPT !.pc = "return", !.return_code = None,
                           !.speed = speed_of(tc.return_code, match)]
    /\ UNCHANGED main_vars

\* the return to simulate_transcoding, were the loop left at the first sample
\* that failed
RecordUntilError ==
    /\ tc.pc = "return"
    /\ tc' = [appended(tc, tc.speed) EXCEPT
                 !.k = tc.k + 1,
                 !.pc = IF tc.k + 1 < tc.samples /\ tc.speed # Error THEN "launch"
                        ELSE "done"]
    /\ UNCHANGED main_vars

\* back in simulate_transcoding: the appends, and the next sample or the
\* return of the three lists
Record ==
    /\ tc.pc = "return"
    /\ tc' = [appended(tc, tc.speed) EXCEPT
                 !.k = tc.k + 1,
                 !.pc = IF tc.k + 1 < tc.samples THEN "launch" ELSE "done"]
    /\ UNCHANGED main_vars

\* the transcoder process exits: by itself with 0 or 1, or on a signal
ProcessExits ==
    /\ tc.pc \notin {"idle", "called", "done"}
    /\ tc.process = "running"
    /\ \E status \in IF tc.signals = {} THEN {"exited 0", "exited 1"} ELSE {"exited 1"} :
          tc' = [tc EXCEPT !.process = status,
                           !.late = too_long(tc.elapsed, tc.sample_duration)]
    /\ UNCHANGED main_vars

\* a tenth of a second passes
Tick ==
    /\ tc.pc \in {"poll", "check", "sleep", "grace", "communicate"}
    /\ tc.elapsed < MaxElapsed \/ (tc.pc \in {"sleep", "grace"} /\ tc.elapsed < tc.wake)
    /\ tc' = [tc EXCEPT !.elapsed = @ + 1]
    /\ UNCHANGED main_vars

NextTranscode ==
    \/ EnterSampler \/ Launch \/ Poll \/ Check \/ Sleep \/ Abort \/ Communicate \/ Record
    \/ ProcessExits \/ Tick

SpecTranscode == InitTranscode /\ [][NextTranscode]_vars

\* simulate_plex_transcoding keeps being run once it is called, and the clock
\* keeps running
PlexStep == Launch \/ Poll \/ Check \/ Sleep \/ Abort \/ Communicate

SpecTranscodeFair == SpecTranscode /\ WF_vars(PlexStep) /\ WF_vars(Tick)

-----------------------------------------------------------------------------
(* media-inventory.py: get_transcode_speed_group applied to one speed ratio *)

\* the ratios tried are 0.0, 0.1, ... up to this many tenths
MaxTenths == 45

\* what calculate_transcode_speed_ratio can hand over (a float, or "Error"),
\* and the other values a caller can pass
SpeedRatios ==
    {F(n, 10) : n \in 0..MaxTenths}
    \cup {I(n) : n \in 0..4}
    \cup {S(<<"1",".","2">>), S(<<"2">>), S(<<"3",".","0">>), S(<<"1",".","1","9">>), Error, NA, None}

InitTier ==
    /\ MainIdle
    /\ fix = NoFix
    /\ doc = None
    /\ analysis = NoAnalysis
    /\ \E speed_ratio \in SpeedRatios :
          tc = [pc |-> "tier", speed_ratio |-> speed_ratio, group |-> None]

\* transcode_speed_groups.append(get_transcode_speed_group(speed_ratio))
Classify ==
    /\ tc.pc = "tier"
    /\ tc' = [tc EXCEPT !.pc = "tiered", !.group = get_transcode_speed_group(tc.speed_ratio)]
    /\ UNCHANGED main_vars

NextTier == Classify

SpecTier == InitTier /\ [][NextTier]_vars

-----------------------------------------------------------------------------
(* The claims about the batch loop (Spec) *)

\* the probe of the current file failed altogether: the tool could not be
\* started, it exited non-zero, or it printed no JSON document
probe_failed(ffprobe) ==
    ffprobe # NotRun /\ (~ffprobe.started \/ ffprobe.returncode # 0 \/ ~ffprobe.json)

\* the probe printed a document without a duration
duration_missing(ffprobe) ==
    /\ ffprobe # NotRun /\ ffprobe.started /\ ffprobe.returncode = 0 /\ ffprobe.json
    /\ "duration" \notin DOMAIN ffprobe.details.v.format.v

\* C1: a total failure of one file (probe tool missing or crashed,
\* unparseable probe output, missing duration) never aborts the run: the call
\* of process_file for that file returns a record and the loop goes on.
C1_FailureNeverAborts ==
    (pc = "returned" /\ (probe_failed(probe) \/ duration_missing(probe))) => call.exc = ""

\* C2: run_ffprobe returns None and never raises for every way the probe can
\* fail: the subprocess cannot be started, it exits non-zero, or its stdout
\* is not a JSON document.
C2_ProbeFailureIsNone ==
    probe_failed(probe) => run_ffprobe(probe) = Ok(None)

\* C3: for every sample count N the record process_file returns, the
\* all-"Error" record included, has as many fields as the header row, which
\* are 40 + 19 + 3 * N.
C3_RecordWidthFixed ==
    pc = "write" =>
        /\ Len(csv.headers) = 40 + 19 + 3 * args.samples
        /\ Len(result) = Len(csv.headers)

\* C4: when the probe exits with code 1, process_file returns the all-"Error"
\* record without raising, the error counter goes up by exactly one for that
\* file and by nothing else of that file, and the record differs from a
\* record with zero issues in its "Issues Detected" field.
C4_ExitOneCounted ==
    [][/\ (pc = "process" /\ probe'.started /\ probe'.returncode = 1)
            => call' = Ok(error_record)
       /\ (pc = "returned" /\ probe.started /\ probe.returncode = 1)
            => (result' = error_record /\ raised' = NoException
                /\ stats'.error = stats.error)
       /\ (pc = "stats" /\ probe.started /\ probe.returncode = 1)
            => (/\ stats'.error = stats.error + 1
                /\ ~py_eq(result[39], S(<<"0">>))
                /\ Len(csv.rows) > 0
                /\ csv.rows[Len(csv.rows)] = writerow(error_record))
       /\ (pc = "cursor" /\ probe.started /\ probe.returncode = 1)
            => stats'.error = stats.error]_vars

C4_Witness ==
    /\ pc = "cursor" /\ probe.started /\ probe.returncode = 1
    /\ result = error_record /\ stats.error = 1 /\ stats.processed = 2

-----------------------------------------------------------------------------
(* The claims about the analysis of one document (SpecDetect) *)

flags_set == {name \in issue_set : analysis.detected.issues[name]}

issues_detected == analysis.result.v[39]
issue_description == analysis.result.v[40]

\* C5: "4K content" is set whenever the width is 3840 and the height 2160,
\* whether the document carries them as integers or as strings.
C5_4KWheneverUHD ==
    (/\ analysis.done /\ analysis.detected.exc = ""
     /\ py_eq(analysis.video_info.width, I(3840)) \/ py_eq(analysis.video_info.width, S(<<"3","8","4","0">>))
     /\ py_eq(analysis.video_info.height, I(2160)) \/ py_eq(analysis.video_info.height, S(<<"2","1","6","0">>)))
    => analysis.detected.issues["4K content"]

unparseable(value) == py_int(value).exc # ""

\* C8: whatever the document carries as bitrate, width, height or frame rate,
\* detect_issues returns normally; a bitrate that is unparseable and not
\* "N/A" sets "Unknown metadata" and neither bitrate rule.
C8_DetectNeverRaises ==
    (analysis.done /\ analysis.detected.exc # "not called") =>
        /\ analysis.detected.exc = ""
        /\ (unparseable(analysis.video_info.bitrate) /\ analysis.video_info.bitrate # NA)
             => (/\ analysis.detected.issues["Unknown metadata"]
                 /\ ~analysis.detected.issues["High bitrate"]
                 /\ ~analysis.detected.issues["Low bitrate"]
                 /\ ~analysis.detected.issues["Very high bitrate"])

-----------------------------------------------------------------------------
(* The claim about the tiers (SpecTier) *)

\* C9: every numeric ratio gets exactly one tier: below 1.2 Failed, from 1.2
\* and below 2 Low, from 2 and below 3 Medium, from 3 on High; never Error.
C9_TierOfRatio ==
    (tc.pc = "tiered" /\ is_number(tc.speed_ratio)) =>
        LET n == num_of(tc.speed_ratio)
            d == den_of(tc.speed_ratio)
        IN  /\ tc.group \in {S(<<"F","a","i","l","e","d">>), S(<<"L","o","w">>), S(<<"M","e","d","i","u","m">>), S(<<"H","i","g","h">>)}
            /\ (tc.group = S(<<"F","a","i","l","e","d">>)) <=> (10 * n < 12 * d)
            /\ (tc.group = S(<<"L","o","w">>)) <=> (12 * d <= 10 * n /\ n < 2 * d)
            /\ (tc.group = S(<<"M","e","d","i","u","m">>)) <=> (2 * d <= n /\ n < 3 * d)
            /\ (tc.group = S(<<"H","i","g","h">>)) <=> (3 * d <= n)

C9_Witness ==
    tc.pc = "tiered" /\ tc.speed_ratio = F(12, 10) /\ tc.group = S(<<"L","o","w">>)

-----------------------------------------------------------------------------
(* The claim about the time limit of a sample (SpecTranscodeFair) *)

last(list) == list[Len(list)]

\* C10 as stated: a transcoder that has not exited when the time since its
\* launch exceeds the sample duration plus 5 s makes simulate_plex_transcoding
\* return "Aborted".
C10_LateMeansAborted ==
    (tc.pc = "return" /\ tc.process # "none" /\ tc.late) => tc.speed = S(<<"A","b","o","r","t","e","d">>)

\* C10 as amended: once the loop has found the transcoder still running and
\* then read a time since launch above the sample duration plus 5 s,
\* simulate_plex_transcoding returns "Aborted" without waiting for the
\* process, and simulate_transcoding records "<1", "<1" and "Low" for the
\* sample.
C10_TimeoutAborts ==
    /\ (tc.pc = "grace") ~> (tc.pc = "return" /\ tc.speed = S(<<"A","b","o","r","t","e","d">>))
    /\ [][/\ (tc.pc = "check" /\ too_long(tc.elapsed, tc.sample_duration))
               => tc'.pc \in {"check", "grace"}
          /\ (tc.pc = "grace" /\ tc'.pc # "grace")
               => (tc'.pc = "return" /\ tc'.speed = S(<<"A","b","o","r","t","e","d">>))
          /\ (tc.pc = "return" /\ tc.speed = S(<<"A","b","o","r","t","e","d">>) /\ tc'.pc # "return")
               => (/\ last(tc'.transcode_speeds) = S(<<"<","1">>)
                   /\ last(tc'.transcode_speed_ratios) = S(<<"<","1">>)
                   /\ last(tc'.transcode_speed_groups) = S(<<"L","o","w">>))]_vars

C10_Witness ==
    /\ tc.pc = "done" /\ tc.speed = S(<<"A","b","o","r","t","e","d">>) /\ tc.process = "running"
    /\ last(tc.transcode_speed_groups) = S(<<"L","o","w">>)

-----------------------------------------------------------------------------
(* file_processing.py: simulate_transcoding, one sample per step: where the  *)
(* sample starts, what simulate_plex_transcoding returned for it and what    *)
(* the loop appended                                                         *)

\* a - b, a * b and max(a, b) on numbers
num_sub(a, b) == F(num_of(a) * den_of(b) - num_of(b) * den_of(a), den_of(a) * den_of(b))
num_mul(a, b) == F(num_of(a) * num_of(b), den_of(a) * den_of(b))
num_max(a, b) == IF num_lt(a, b) THEN b ELSE a

\* what random.random() draws: a float of [0.0, 1.0); with rounding,
\* a + (b - a) * random() can come out as b
RandomDraws == {F(0, 1), F(1, 2), F(1, 1)}

\* random.uniform(a, b)
random_uniform(a, b) == {num_add(a, num_mul(num_sub(b, a), draw)) : draw \in RandomDraws}

\* the sample's start, were it drawn from the whole file
start_times_whole_file(sample, file_duration, sample_duration) ==
    IF sample = 0 THEN {I(0)} ELSE random_uniform(I(0), file_duration)

\* start_time = 0 if i == 0 else random.uniform(0, max(0, file_duration -
\* sample_duration)): the values it can take for sample i
start_times(sample, file_duration, sample_duration) ==
    IF sample = 0 THEN {I(0)}
    ELSE random_uniform(I(0), num_max(I(0), num_sub(file_duration, sample_duration)))

\* what simulate_transcoding is called with: process_file passes
\* file_info['duration'], the -t argument and video_info['frame_rate']
SampledDurations == {F(1, 2), F(241, 2)}
RequestedDurations == {None, I(1), I(30), I(300)}
SampledFrameRates == {S(<<"2","3",".","9","7","6">>), S(<<"0",".","0","0","0">>), NA}

\* what simulate_plex_transcoding returns
PlexReturns == {F(288, 10), F(719, 10), NA, Error, S(<<"A","b","o","r","t","e","d">>)}

InitSampler ==
    /\ MainIdle
    /\ fix = NoFix
    /\ doc = None
    /\ analysis = NoAnalysis
    /\ \E file_duration \in SampledDurations, user_duration \in RequestedDurations,
          samples \in 1..MaxSamples, frame_rate \in SampledFrameRates :
          tc = [pc |-> "called", file_duration |-> file_duration,
                user_duration |-> user_duration, samples |-> samples,
                frame_rate |-> frame_rate, sample_duration |-> None, k |-> 0,
                start_time |-> None, speed |-> None,
                transcode_speeds |-> <<>>, transcode_speed_ratios |-> <<>>,
                transcode_speed_groups |-> <<>>]

\* one iteration of the loop: the start is drawn, simulate_plex_transcoding
\* is called and returns, the three appends
Sample ==
    /\ tc.pc = "launch"
    /\ \E start_time \in start_times(tc.k, tc.file_duration, tc.sample_duration),
          speed \in PlexReturns :
          tc' = [appended(tc, speed) EXCEPT
                    !.start_time = start_time, !.speed = speed, !.k = tc.k + 1,
                    !.pc = IF tc.k + 1 < tc.samples THEN "launch" ELSE "done"]
    /\ UNCHANGED main_vars

NextSampler == EnterSampler \/ Sample

SpecSampler == InitSampler /\ [][NextSampler]_vars
-----------------------------------------------------------------------------
(* fix-health-issues.py: main and process_file, statement by statement,     *)
(* over the files on disk, with the run interrupted at any point and        *)
(* started again over the same list                                         *)

\* the list holds 1..MaxListed files, and the script is run up to MaxRuns
\* times over it
MaxListed == 2
MaxRuns == 2

\* a listed file as the first run finds it: the file itself, no
\* .fix_health_check_temp.mkv and no .to_be_deleted_health_fixed beside it
untouched == [original |-> "unfixed", temp |-> "absent", sentinel |-> FALSE]

\* clean_temp_files(file_path)
clean_temp_files(file) == [file EXCEPT !.temp = "absent"]

\* process_file returns to the loop of main, which counts the file and goes
\* on to the next one or ends the run
returned_to_main(ok) ==
    [fix EXCEPT !.pc = IF fix.idx < Len(fix.files) THEN "exists" ELSE "finished",
                !.idx = IF fix.idx < Len(fix.files) THEN fix.idx + 1 ELSE fix.idx,
                !.returncode = None,
                !.processed_files = IF ok THEN @ + 1 ELSE @,
                !.failed_files = IF ok THEN @ ELSE @ \cup {fix.idx}]

fix_vars ==
    <<args, file_list, cursor, pc, i, result, call, raised, probe, csv, stats, doc, analysis,
      tc>>

InitFix ==
    /\ MainIdle
    /\ doc = None
    /\ analysis = NoAnalysis
    /\ tc = NoSampler
    /\ \E n \in 1..MaxListed :
          fix = [pc |-> "exists", run |-> 1, idx |-> 1,
                 files |-> [f \in 1..n |-> untouched],
                 returncode |-> None, processed_files |-> 0, failed_files |-> {}]

\* if os.path.exists(input_file + '.to_be_deleted_health_fixed'): return True
SkipProcessed ==
    /\ fix.pc = "exists"
    /\ fix' = IF fix.files[fix.idx].sentinel THEN returned_to_main(TRUE)
              ELSE [fix EXCEPT !.pc = "clean"]
    /\ UNCHANGED fix_vars

\* clean_temp_files(input_file)
CleanTemp ==
    /\ fix.pc = "clean"
    /\ fix' = [fix EXCEPT !.pc = "popen",
                          !.files[fix.idx] = clean_temp_files(fix.files[fix.idx])]
    /\ UNCHANGED fix_vars

\* process = subprocess.Popen(command, ...): ffmpeg is started, or the
\* exception ends the script
StartFfmpeg ==
    /\ fix.pc = "popen"
    /\ \E started \in BOOLEAN :
          fix' = [fix EXCEPT !.pc = IF started THEN "encode" ELSE "stopped"]
    /\ UNCHANGED fix_vars

\* the loop over ffmpeg's stderr and process.wait(): ffmpeg writes the temp
\* file and exits with 0, or fails and leaves nothing or a partial file
Encode ==
    /\ fix.pc = "encode"
    /\ \E outcome \in IF fix.files[fix.idx].original = "absent"
                      THEN {[returncode |-> 1, temp |-> "absent"]}
                      ELSE {[returncode |-> 0, temp |-> "complete"],
                            [returncode |-> 1, temp |-> "absent"],
                            [returncode |-> 1, temp |-> "partial"]} :
          fix' = [fix EXCEPT !.pc = "returncode", !.returncode = outcome.returncode,
                             !.files[fix.idx].temp = outcome.temp]
    /\ UNCHANGED fix_vars

\* if process.returncode != 0: the temp file is removed, return False
CheckReturncode ==
    /\ fix.pc = "returncode"
    /\ fix' = IF fix.returncode # 0
              THEN [returned_to_main(FALSE) EXCEPT
                       !.files[fix.idx] = clean_temp_files(fix.files[fix.idx])]
              ELSE [fix EXCEPT !.pc = "rename input"]
    /\ UNCHANGED fix_vars

\* os.rename(input_file, input_file + '.to_be_deleted_health_fixed')
RenameInput ==
    /\ fix.pc = "rename input"
    /\ fix' = [fix EXCEPT !.pc = "rename output",
                          !.files[fix.idx].original = "absent",
                          !.files[fix.idx].sentinel = TRUE]
    /\ UNCHANGED fix_vars

\* os.rename(output_file, input_file); return True
RenameOutput ==
    /\ fix.pc = "rename output"
    /\ fix' = [returned_to_main(TRUE) EXCEPT
                  !.files[fix.idx].original = "fixed",
                  !.files[fix.idx].temp = "absent"]
    /\ UNCHANGED fix_vars

\* the script is interrupted (Ctrl-C, kill, power loss); an ffmpeg that was
\* encoding leaves what it had written
Interrupt ==
    /\ fix.pc \in {"exists", "clean", "popen", "encode", "returncode", "rename input",
                   "rename output"}
    /\ \E temp \in IF fix.pc = "encode" THEN {"absent", "partial"}
                   ELSE {fix.files[fix.idx].temp} :
          fix' = [fix EXCEPT !.pc = "stopped", !.files[fix.idx].temp = temp]
    /\ UNCHANGED fix_vars

\* the script is started again over the same list
Rerun ==
    /\ fix.pc \in {"stopped", "finished"}
    /\ fix.run < MaxRuns
    /\ fix' = [fix EXCEPT !.pc = "exists", !.run = @ + 1, !.idx = 1, !.returncode = None,
                          !.processed_files = 0, !.failed_files = {}]
    /\ UNCHANGED fix_vars

NextFix ==
    \/ SkipProcessed \/ CleanTemp \/ StartFfmpeg \/ Encode \/ CheckReturncode
    \/ RenameInput \/ RenameOutput \/ Interrupt \/ Rerun

SpecFix == InitFix /\ [][NextFix]_vars
-----------------------------------------------------------------------------
(* file_processing.py: process_file called for one document after another,   *)
(* as the loop of main does: what each call made of its document             *)

\* this many calls are followed
MaxCalls == 3

\* the documents the calls are given
RepeatedDocs == {Scenario1, Scenario2, DocPlain}

InitAgain ==
    /\ MainIdle
    /\ fix = NoFix
    /\ tc = NoSampler
    /\ doc \in RepeatedDocs
    /\ analysis = [done |-> FALSE, calls |-> <<>>]

\* what one more call leaves: the calls so far and this one's document,
\* classification, issues and record
called(calls, details) ==
    [done |-> TRUE,
     calls |-> Append(calls, [details |-> details,
                              made |-> analysis_of(file_entry(1), details)])]

\* process_file is called for doc, and the next document comes up
AnalyzeAgain ==
    /\ Len(analysis.calls) < MaxCalls
    /\ analysis' = called(analysis.calls, doc)
    /\ doc' \in RepeatedDocs
    /\ UNCHANGED <<args, file_list, cursor, pc, i, result, call, raised, probe, csv, stats, tc,
                   fix>>

NextAgain == AnalyzeAgain

SpecAgain == InitAgain /\ [][NextAgain]_vars
-----------------------------------------------------------------------------
(* file_processing.py: parse_frame_rate applied to one value of             *)
(* avg_frame_rate                                                            *)

\* the fractions "n/d" tried
Numerators == {0, 1, 24, 25, 30, -24, 24000, 30000, 60000}
Denominators == {0, 1, 2, 16, 1001, -1}
fraction_text(n, d) == int_str(n) \o <<"/">> \o int_str(d)

\* the other values tried: plain decimals, texts that are neither, a text of
\* a digit that is no decimal digit, and values that are no text
OtherFrameRates ==
    {S(<<"2","4">>), S(<<"2","3",".","9","7","6">>), S(<<".","5">>), S(<<"5",".">>), S(<<"-","2","4">>), S(<<"1",".","2",".","3">>), S(<<"a","b","c">>), S(<<>>),
     S(<<"N","/","A">>), S(<<"1","/","2","/","3">>), S(<<"a","/","b">>), S(<<"2","4","/">>), S(<<"U+00B2">>),
     S(<<"2", "U+00B2">>), S(<<"U+00B2", "/", "1">>), None, I(24), F(2997, 125)}

FrameRateInputs ==
    {S(fraction_text(n, d)) : n \in Numerators, d \in Denominators} \cup OtherFrameRates

InitFrameRate ==
    /\ MainIdle
    /\ fix = NoFix
    /\ tc = NoSampler
    /\ doc \in FrameRateInputs
    /\ analysis = NoAnalysis

\* 'frame_rate': parse_frame_rate(get_json_value(video_streams, '0.avg_frame_rate'))
ParseFrameRate ==
    /\ ~analysis.done
    /\ analysis' = [done |-> TRUE, frame_rate |-> parse_frame_rate(doc)]
    /\ UNCHANGED <<args, file_list, cursor, pc, i, result, call, raised, probe, csv, stats, doc,
                   tc, fix>>

NextFrameRate == ParseFrameRate

SpecFrameRate == InitFrameRate /\ [][NextFrameRate]_vars
-----------------------------------------------------------------------------
(* file_processing.py: the Dolby Vision profile of a file whose video stream *)
(* carries it in side data, in a tag, as a field, or in several of them      *)

\* a "DOVI configuration record" without dv_profile
NoProfile == [t |-> "no profile"]

\* what each source holds: ffprobe prints side data and stream fields as
\* numbers and every tag as a string
SideDataProfiles == {Absent, NoProfile, I(5), I(7), I(8)}
TagProfiles == {Absent, S(<<"5">>), S(<<"7">>), S(<<"8">>)}
DirectProfiles == {Absent, I(5), I(8), S(<<"5">>), S(<<"8">>)}

\* the side_data_list of a stream whose record holds `profile`
side_data_of(profile) ==
    LET other == D([side_data_type |-> S(<<"C","o","n","t","e","n","t"," ","l","i","g","h","t"," ","l","e","v","e","l"," ","m","e","t","a","d","a","t","a">>)])
        record == D([side_data_type |-> S(<<"D","O","V","I"," ","c","o","n","f","i","g","u","r","a","t","i","o","n"," ","r","e","c","o","r","d">>)])
    IN  IF profile = Absent THEN L(<<other>>)
        ELSE IF profile = NoProfile THEN L(<<other, record>>)
        ELSE L(<<other, with_key(record, "dv_profile", profile)>>)

\* scenario 1 with the three sources set on its video stream
dolby_doc(side, tag, direct) ==
    edit_video(
    edit_video(
    edit_video(Scenario1, "side_data_list", side_data_of(side)),
               "tags", IF tag = Absent THEN D([language |-> S(<<"e","n","g">>)])
                       ELSE D([language |-> S(<<"e","n","g">>), DOVI_PROFILE |-> tag])),
               "dv_profile", direct)

DolbyDocs ==
    {dolby_doc(side, tag, direct) :
        side \in SideDataProfiles, tag \in TagProfiles, direct \in DirectProfiles}

InitDolby ==
    /\ MainIdle
    /\ fix = NoFix
    /\ tc = NoSampler
    /\ doc \in DolbyDocs
    /\ analysis = NoAnalysis

\* process_file(file, ...) on the document
AnalyzeDolby ==
    /\ ~analysis.done
    /\ analysis' = analysis_of(file_entry(1), doc)
    /\ UNCHANGED <<args, file_list, cursor, pc, i, result, call, raised, probe, csv, stats, doc,
                   tc, fix>>

NextDolby == AnalyzeDolby

SpecDolby == InitDolby /\ [][NextDolby]_vars
-----------------------------------------------------------------------------
(* script_statistics.py: generate_statistics, the fold of the metadata list *)
(* into the statistics.  The list is file_list, the loop index i, the dict  *)
(* stats.  Of each record the model keeps the fields whose use can fail:    *)
(* Width, Audio Stream Count, Subtitle stream count in file and Duration.   *)

MaxRecords == 2

\* config.py: MAX_AUDIO_STREAMS
MAX_AUDIO_STREAMS == 4

\* a record of the list: a dict of strings; Duration can be missing
metadata_record(width, audio_count, subtitle_count, duration) ==
    LET m == ("Container Format" :> S(<<"m","a","t","r","o","s","k","a">>)) @@ ("Width" :> width)
             @@ ("Height" :> S(<<"1","0","8","0">>)) @@ ("Audio Stream Count" :> audio_count)
             @@ ("Subtitle stream count in file" :> subtitle_count)
             @@ ("Filesize (in GB)" :> S(<<"2">>))
    IN  D(IF duration = Absent THEN m ELSE m @@ ("Duration" :> duration))

MetadataRecords ==
    {metadata_record(width, audio_count, subtitle_count, duration) :
        width \in {S(<<"1","9","2","0">>), S(<<"u","n","k","n","o","w","n">>)},
        audio_count \in {S(<<"2">>), S(<<"u","n","k","n","o","w","n">>)},
        subtitle_count \in {S(<<"1">>), S(<<"u","n","k","n","o","w","n">>)},
        duration \in {S(<<"6","0">>), S(<<"u","n","k","n","o","w","n">>), Absent}}

\* utils.py: safe_float(value)
safe_float(value) ==
    LET converted == py_float(value)
    IN  IF converted.exc # "" THEN F(0, 1) ELSE converted.v

\* counter[key] += 1 on a Counter
counted(counter, key) ==
    IF key \in DOMAIN counter THEN [counter EXCEPT ![key] = @ + 1] ELSE counter @@ (key :> 1)

\* sum(safe_float(m[key]) for m in metadata_list), or the KeyError of m[key]
RECURSIVE sum_of(_, _)
sum_of(metadata_list, key) ==
    IF metadata_list = <<>> THEN Ok(I(0))
    ELSE LET value == subscript(metadata_list[1], K(key))
             rest == sum_of(Tail(metadata_list), key)
         IN  IF value.exc # "" THEN value
             ELSE IF rest.exc # "" THEN rest
             ELSE Ok(num_add(safe_float(value.v), rest.v))

\* the stats dict before the loop, with total_file_size
new_statistics(metadata_list) ==
    [total_file_size |-> sum_of(metadata_list, "Filesize (in GB)").v,
     formats |-> <<>>, resolutions |-> <<>>, resolution_categories |-> <<>>,
     soundtrack_counts |-> <<>>, total_count |-> 0, missing_subtitles |-> 0,
     errors |-> <<>>, total_runtime |-> None, longest_playtime |-> None]

\* for category, (min_width, min_height) in RESOLUTION_CATEGORIES.items()
resolution_category(width, height) ==
    IF width >= 7680 /\ height >= 4320 THEN "8K"
    ELSE IF width >= 3840 /\ height >= 2160 THEN "4K"
    ELSE IF width >= 1920 /\ height >= 1080 THEN "1080p"
    ELSE IF width >= 1280 /\ height >= 720 THEN "720p"
    ELSE IF width >= 720 /\ height >= 480 THEN "480p"
    ELSE "SD"

\* the except clause of the loop: stats['errors'].append(...)
failed_at(st, k, exc) == [st EXCEPT !.errors = Append(@, [record |-> k, exc |-> exc])]

\* the body of the loop for record k: the statements up to the first that
\* raises, then the except clause
fold_record(st, k, m) ==
    LET width == py_int(safe_float(m.v["Width"])).v.v
        height == py_int(safe_float(m.v["Height"])).v.v
        file_video == [st EXCEPT
                          !.formats = counted(@, m.v["Container Format"]),
                          !.resolutions = counted(@, <<width, height>>),
                          !.resolution_categories =
                              counted(@, resolution_category(width, height))]
        soundtrack_count == py_int(m.v["Audio Stream Count"])
        subtitle_count == py_int(m.v["Subtitle stream count in file"])
    IN  IF soundtrack_count.exc # "" THEN failed_at(file_video, k, soundtrack_count.exc)
        ELSE LET audio == [file_video EXCEPT
                              !.soundtrack_counts =
                                  counted(@, IF soundtrack_count.v.v < MAX_AUDIO_STREAMS
                                             THEN soundtrack_count.v.v
                                             ELSE MAX_AUDIO_STREAMS)]
             IN  IF subtitle_count.exc # "" THEN failed_at(audio, k, subtitle_count.exc)
                 ELSE [audio EXCEPT
                          !.total_count = @ + subtitle_count.v.v,
                          !.missing_subtitles =
                              IF m.v["Subtitle stream count in file"] = S(<<"0">>)
                              THEN @ + 1 ELSE @]

\* stats['script']['total_runtime'] and its except clause
runtime_statistics(st, metadata_list) ==
    LET total == sum_of(metadata_list, "Duration")
    IN  IF total.exc # ""
        THEN [failed_at(st, 0, total.exc) EXCEPT !.total_runtime = Error]
        ELSE [st EXCEPT !.total_runtime = total.v]

\* the index of max((m for m in metadata_list if m['Duration'] != 'unknown'),
\* key=lambda x: safe_float(x['Duration'])): the first of the longest; the
\* KeyError of m['Duration']; the ValueError of max() of nothing
longest_playtime(metadata_list) ==
    LET known == {k \in 1..Len(metadata_list) :
                     dict_get(metadata_list[k], "Duration", None) # S(<<"u","n","k","n","o","w","n">>)}
        length(k) == safe_float(metadata_list[k].v["Duration"])
    IN  IF \E k \in 1..Len(metadata_list) : "Duration" \notin DOMAIN metadata_list[k].v
        THEN Raise("KeyError")
        ELSE IF known = {} THEN Raise("ValueError")
        ELSE Ok(CHOOSE k \in known :
                    \A j \in known : /\ ~num_lt(length(k), length(j))
                                     /\ num_lt(length(j), length(k)) \/ k <= j)

InitStatistics ==
    /\ args = [mode |-> "input", samples |-> 0, duration |-> None]
    /\ \E n \in 0..MaxRecords : file_list \in [1..n -> MetadataRecords]
    /\ cursor = 0
    /\ pc = "called"
    /\ i = 0
    /\ result = <<>>
    /\ call = NoCall
    /\ raised = NoException
    /\ probe = NotRun
    /\ csv = [headers |-> <<>>, rows |-> <<>>]
    /\ stats = new_stats(0)
    /\ doc = None
    /\ analysis = NoAnalysis
    /\ tc = NoSampler
    /\ fix = NoFix

\* generate_statistics up to its loop
EnterStatistics ==
    /\ pc = "called"
    /\ stats' = new_statistics(file_list)
    /\ i' = 0
    /\ pc' = IF file_list = <<>> THEN "runtime" ELSE "fold"
    /\ UNCHANGED <<args, file_list, cursor, result, call, raised, probe, csv, doc, analysis, tc,
                   fix>>

\* one iteration of "for m in metadata_list"
FoldRecord ==
    /\ pc = "fold"
    /\ stats' = fold_record(stats, i + 1, file_list[i + 1])
    /\ i' = i + 1
    /\ pc' = IF i + 1 < Len(file_list) THEN "fold" ELSE "runtime"
    /\ UNCHANGED <<args, file_list, cursor, result, call, raised, probe, csv, doc, analysis, tc,
                   fix>>

\* the try block of the runtime statistics
RuntimeStatistics ==
    /\ pc = "runtime"
    /\ stats' = runtime_statistics(stats, file_list)
    /\ pc' = "playtime"
    /\ UNCHANGED <<args, file_list, cursor, i, result, call, raised, probe, csv, doc, analysis,
                   tc, fix>>

\* the try block of the file size and playtime statistics, which catches
\* ValueError only, and the return of stats
PlaytimeStatistics ==
    /\ pc = "playtime"
    /\ LET longest == longest_playtime(file_list)
       IN  IF longest.exc = "KeyError"
           THEN /\ raised' = [exc |-> longest.exc, at |-> "generate_statistics"]
                /\ pc' = "aborted"
                /\ UNCHANGED stats
           ELSE /\ stats' = IF longest.exc # "" THEN failed_at(stats, 0, longest.exc)
                            ELSE [stats EXCEPT !.longest_playtime = I(longest.v)]
                /\ pc' = "returned"
                /\ UNCHANGED raised
    /\ UNCHANGED <<args, file_list, cursor, i, result, call, probe, csv, doc, analysis, tc, fix>>

NextStatistics == EnterStatistics \/ FoldRecord \/ RuntimeStatistics \/ PlaytimeStatistics

SpecStatistics == InitStatistics /\ [][NextStatistics]_vars
-----------------------------------------------------------------------------
(* transcode-hdr-to-sdr.py: main and transcode_file, statement by           *)
(* statement, over the files on disk, with the run interrupted at any point *)
(* and started again over the same list (1..MaxListed files, up to MaxRuns  *)
(* runs)                                                                     *)

\* a listed file as the first run finds it: the input, no "<name> SDR
\* Handbrake.temp.mkv" and no "<name> SDR Handbrake.mkv"
not_transcoded == [input |-> "present", temp |-> "absent", output |-> FALSE]

\* transcode_file returns to the loop of main, which goes on to the next
\* file or ends the run
next_file ==
    [fix EXCEPT !.pc = IF fix.idx < Len(fix.files) THEN "exists" ELSE "finished",
                !.idx = IF fix.idx < Len(fix.files) THEN fix.idx + 1 ELSE fix.idx,
                !.returncode = None]

InitHdr ==
    /\ MainIdle
    /\ doc = None
    /\ analysis = NoAnalysis
    /\ tc = NoSampler
    /\ \E n \in 1..MaxListed :
          fix = [pc |-> "exists", run |-> 1, idx |-> 1,
                 files |-> [f \in 1..n |-> not_transcoded], returncode |-> None]

\* if os.path.exists(output_file): return
SkipExisting ==
    /\ fix.pc = "exists"
    /\ fix' = IF fix.files[fix.idx].output THEN next_file ELSE [fix EXCEPT !.pc = "temp"]
    /\ UNCHANGED fix_vars

\* if os.path.exists(temp_file): os.remove(temp_file)
RemoveTemp ==
    /\ fix.pc = "temp"
    /\ fix' = [fix EXCEPT !.pc = "popen", !.files[fix.idx].temp = "absent"]
    /\ UNCHANGED fix_vars

\* process = subprocess.Popen(command, ...): HandBrakeCLI is started, or the
\* exception ends the script
StartHandBrake ==
    /\ fix.pc = "popen"
    /\ \E started \in BOOLEAN :
          fix' = [fix EXCEPT !.pc = IF started THEN "encode" ELSE "stopped"]
    /\ UNCHANGED fix_vars

\* the loop over HandBrake's stdout and process.wait(): HandBrake writes the
\* temp file and exits with 0, or fails and leaves nothing or a partial file
Transcode ==
    /\ fix.pc = "encode"
    /\ \E outcome \in {[returncode |-> 0, temp |-> "complete"],
                       [returncode |-> 0, temp |-> "absent"],
                       [returncode |-> 1, temp |-> "absent"],
                       [returncode |-> 1, temp |-> "partial"]} :
          fix' = [fix EXCEPT !.pc = "returncode", !.returncode = outcome.returncode,
                             !.files[fix.idx].temp = outcome.temp]
    /\ UNCHANGED fix_vars

\* if process.returncode == 0: if os.path.exists(temp_file): ...; else: the
\* failure is logged
CheckHandBrake ==
    /\ fix.pc = "returncode"
    /\ fix' = IF fix.returncode = 0 /\ fix.files[fix.idx].temp # "absent"
              THEN [fix EXCEPT !.pc = "rename temp"]
              ELSE next_file
    /\ UNCHANGED fix_vars

\* os.rename(temp_file, output_file)
RenameTemp ==
    /\ fix.pc = "rename temp"
    /\ fix' = [fix EXCEPT !.pc = "rename input",
                          !.files[fix.idx].temp = "absent",
                          !.files[fix.idx].output = TRUE]
    /\ UNCHANGED fix_vars

\* os.rename(input_file, input_file + '.to_be_deleted'), and the return
MarkInput ==
    /\ fix.pc = "rename input"
    /\ fix' = [next_file EXCEPT !.files[fix.idx].input = "to_be_deleted"]
    /\ UNCHANGED fix_vars

\* the script is interrupted (Ctrl-C, kill, power loss); a HandBrake that was
\* encoding leaves what it had written
InterruptHdr ==
    /\ fix.pc \in {"exists", "temp", "popen", "encode", "returncode", "rename temp",
                   "rename input"}
    /\ \E temp \in IF fix.pc = "encode" THEN {"absent", "partial"}
                   ELSE {fix.files[fix.idx].temp} :
          fix' = [fix EXCEPT !.pc = "stopped", !.files[fix.idx].temp = temp]
    /\ UNCHANGED fix_vars

\* the script is started again over the same list
RerunHdr ==
    /\ fix.pc \in {"stopped", "finished"}
    /\ fix.run < MaxRuns
    /\ fix' = [fix EXCEPT !.pc = "exists", !.run = @ + 1, !.idx = 1, !.returncode = None]
    /\ UNCHANGED fix_vars

NextHdr ==
    \/ SkipExisting \/ RemoveTemp \/ StartHandBrake \/ Transcode \/ CheckHandBrake
    \/ RenameTemp \/ MarkInput \/ InterruptHdr \/ RerunHdr

SpecHdr == InitHdr /\ [][NextHdr]_vars
-----------------------------------------------------------------------------
(* The claims about the samples of one simulate_transcoding call             *)
(* (SpecSampler)                                                             *)

\* C11: sample 0 starts at offset 0, and every sample starts at an offset
\* start_offset >= 0 with start_offset + sample_duration <= file_duration.
C11_SampleInsideFile ==
    (tc.pc \in {"launch", "done"} /\ tc.k > 0) =>
        /\ (tc.k = 1 => py_eq(tc.start_time, I(0)))
        /\ ~num_lt(tc.start_time, I(0))
        /\ ~num_lt(tc.file_duration, num_add(tc.start_time, tc.sample_duration))

\* the second sample of a long file starts at the last offset that fits
C11_Witness ==
    /\ tc.pc = "done" /\ tc.k = 2
    /\ py_eq(tc.file_duration, F(241, 2)) /\ py_eq(tc.sample_duration, I(30))
    /\ py_eq(tc.start_time, F(181, 2))

-----------------------------------------------------------------------------
(* The claims about the batch loop (Spec), continued *)

\* C12: when N > 0 samples are requested and no -t/--duration is given, the
\* record of a file that was analysed carries N speed, N ratio and N tier
\* fields after its 40 base fields and 19 issue flags.
C12_DefaultDurationSamples ==
    (pc = "write" /\ args.samples > 0 /\ args.duration = None /\ result # error_record)
        => Len(result) = 40 + 19 + 3 * args.samples

\* C14: a run resumed with -r processes no entry below the stored cursor, and
\* after each entry it has processed it stores the cursor i + 1 and goes on
\* to the next entry or to the report.
C14_ResumeFromCursor ==
    /\ [](args.mode = "resume" /\ pc = "process" => i >= cursor)
    /\ [][(args.mode = "resume" /\ pc = "cursor") =>
            /\ cursor' = i + 1
            /\ pc' = IF i + 1 < Len(file_list) THEN "process" ELSE "report"]_vars

-----------------------------------------------------------------------------
(* The claims about the transcoder runs of one simulate_transcoding call     *)
(* (SpecTranscodeFair), continued                                            *)

\* the sample the loop recorded as its j-th: what it holds follows from the
\* speed simulate_plex_transcoding returned for that sample alone
recorded_alone(j) ==
    IF py_eq(tc.transcode_speeds[j], S(<<"<","1">>))
    THEN /\ py_eq(tc.transcode_speed_ratios[j], S(<<"<","1">>))
         /\ py_eq(tc.transcode_speed_groups[j], S(<<"L","o","w">>))
    ELSE /\ tc.transcode_speed_ratios[j]
              = calculate_transcode_speed_ratio(tc.transcode_speeds[j], tc.frame_rate)
         /\ tc.transcode_speed_groups[j]
              = get_transcode_speed_group(tc.transcode_speed_ratios[j])

\* C13: a sample whose transcoder exits non-zero or cannot be launched is
\* recorded with tier "Error" and the loop goes on to the next sample; every
\* sample's speed, ratio and tier follow from its own transcoder run alone,
\* and the call returns one entry per requested sample.
C13_ErrorOnlyForItsSample ==
    /\ [](tc.pc \in {"launch", "poll", "check", "sleep", "grace", "communicate",
                     "return", "done"} =>
            /\ Len(tc.transcode_speed_groups) = tc.k
            /\ \A j \in 1..tc.k : recorded_alone(j)
            /\ (tc.pc = "done" /\ tc.sample_duration # None => tc.k = tc.samples))
    /\ [][(tc.pc = "return" /\ tc.speed = Error) =>
            /\ tc'.transcode_speeds = Append(tc.transcode_speeds, Error)
            /\ tc'.transcode_speed_ratios = Append(tc.transcode_speed_ratios, Error)
            /\ tc'.transcode_speed_groups = Append(tc.transcode_speed_groups, Error)
            /\ tc'.pc = IF tc.k + 1 < tc.samples THEN "launch" ELSE "done"]_vars

\* the first transcoder could not be launched and the second sample was
\* measured all the same
C13_Witness ==
    /\ tc.pc = "done" /\ tc.k = 2
    /\ tc.transcode_speed_groups[1] = Error
    /\ tc.transcode_speeds[2] = F(288, 10)
    /\ tc.transcode_speed_groups[2] # Error

-----------------------------------------------------------------------------
(* The claims about fix-health-issues.py (SpecFix) *)

\* C15: whatever the points at which runs were interrupted, once a run over
\* the list has finished every listed file has a file at its original name;
\* a file with the .to_be_deleted_health_fixed sentinel is skipped only when
\* the fixed output is already at the original name; and a leftover temp
\* file is gone before ffmpeg is started again.
C15_OriginalNameKept ==
    /\ [](fix.pc = "finished" =>
            \A f \in DOMAIN fix.files : fix.files[f].original # "absent")
    /\ [][(fix.pc = "exists" /\ fix.files[fix.idx].sentinel /\ fix'.pc # "stopped")
            => fix.files[fix.idx].original = "fixed"]_vars
    /\ [](fix.pc = "popen" => fix.files[fix.idx].temp = "absent")

-----------------------------------------------------------------------------
(* The claims about repeated calls of detect_issues (SpecAgain) *)

\* no element of the list sorts before the one ahead of it
in_order(strs) == \A k \in 1..(Len(strs) - 1) : ~str_less(strs[k + 1], strs[k])

-----------------------------------------------------------------------------
(* The claims about parse_frame_rate (SpecFrameRate) *)

\* text is n/d to three decimals: three digits follow the point, and the
\* number it spells is within half a thousandth of n/d
three_decimals_of(text, n, d) ==
    /\ Len(split(text, ".")) = 2
    /\ Len(split(text, ".")[2]) = 3
    /\ py_float(S(text)).exc = ""
    /\ 2000 * abs(py_float(S(text)).v.n * d - n * py_float(S(text)).v.d)
          <= py_float(S(text)).v.d * abs(d)

\* a plain decimal: decimal digits with at most one point among them
plain_decimal(x) == x.t = "str" /\ isdecimal(remove_first(x.v, "."))

\* C17: parse_frame_rate never raises; it maps "n/d" with d # 0 to n/d with
\* three decimals and "n/0" to "N/A", and returns "N/A" for every value that
\* is neither a fraction nor a plain decimal.
C17_ParseFrameRate ==
    analysis.done =>
        /\ analysis.frame_rate.exc = ""
        /\ \A n \in Numerators, d \in Denominators :
              doc = S(fraction_text(n, d)) =>
                  IF d = 0 THEN analysis.frame_rate.v = NA
                  ELSE three_decimals_of(analysis.frame_rate.v.v, n, d)
        /\ (doc \in OtherFrameRates /\ ~plain_decimal(doc)) => analysis.frame_rate.v = NA

\* the transcoder has been sent `sig` in this step
sent(sig) == sig \notin tc.signals /\ sig \in tc'.signals

\* the signals of simulate_plex_transcoding come in their order and time
signals_in_order ==
    /\ [](tc.pc # "idle" /\ tc.signals # {} => too_long(tc.elapsed, tc.sample_duration))
    /\ [](tc.pc # "idle" /\ "SIGTERM" \in tc.signals => "SIGINT" \in tc.signals)
    /\ [][sent("SIGTERM") => /\ tc.pc = "grace"
                             /\ tc.elapsed >= tc.wake
                             /\ tc.process = "running"]_vars
    /\ [][sent("SIGINT") => tc'.wake = tc.elapsed + TicksPerSecond]_vars

\* C18: the transcoder gets no signal before sample_duration + 5 s have
\* passed since its launch, SIGINT comes first, SIGTERM only a second later
\* and only to a process still running, and a transcoder that exited before
\* the deadline is not reported as "Aborted".
C18_AbortOnlyPastDeadline ==
    /\ signals_in_order
    /\ [](tc.pc = "return" /\ tc.speed = S(<<"A","b","o","r","t","e","d">>)
            => ~(tc.process \in {"exited 0", "exited 1"} /\ ~tc.late))

\* the frame rate the ratio is taken against: the number the text spells, or
\* 24 when it spells none
rate_against(frame_rate) ==
    IF plain_decimal(frame_rate) THEN py_float(frame_rate).v ELSE F(24, 1)

\* sample j was not aborted and its ratio and tier are the claimed ones
ratio_as_claimed(j) ==
    LET speed == tc.transcode_speeds[j]
        ratio == tc.transcode_speed_ratios[j]
        rate == rate_against(tc.frame_rate)
    IN  speed # S(<<"<","1">>) =>
            IF speed \in {NA, Error} \/ num_of(rate) = 0
            THEN ratio = Error /\ tc.transcode_speed_groups[j] = Error
            ELSE is_number(ratio) /\ py_eq(num_mul(ratio, rate), speed)

\* C19: a sample that was not aborted has the ratio speed / frame_rate, with
\* 24.0 for a frame rate that is no number; a speed of "N/A" or "Error", or
\* a frame rate of 0, gives the ratio "Error" and the tier "Error".
C19_RatioOrError ==
    tc.pc \in {"launch", "done"} =>
        \A j \in 1..Len(tc.transcode_speeds) : ratio_as_claimed(j)

\* a measured speed was set against the default of 24 fps, and a sample
\* without a speed was recorded as "Error"
C19_Witness ==
    /\ tc.pc = "done"
    /\ tc.frame_rate = NA
    /\ \E j \in 1..Len(tc.transcode_speeds) :
          /\ tc.transcode_speeds[j] = F(288, 10)
          /\ tc.transcode_speed_ratios[j] = F(12, 10)
    /\ \E j \in 1..Len(tc.transcode_speeds) :
          /\ tc.transcode_speeds[j] = NA
          /\ tc.transcode_speed_groups[j] = Error

-----------------------------------------------------------------------------
(* The claim about the Dolby Vision profile (SpecDolby) *)

\* the profile of the first source that has one: the DOVI configuration
\* record, then the tag, then the field
first_profile(stream) ==
    LET with_profile == SelectSeq(dovi_records(stream), LAMBDA r : "dv_profile" \in DOMAIN r.v)
        tags == dict_get(stream, "tags", D(<<>>))
    IN  IF with_profile # <<>> THEN with_profile[1].v["dv_profile"]
        ELSE IF "DOVI_PROFILE" \in DOMAIN tags.v THEN tags.v["DOVI_PROFILE"]
        ELSE dict_get(stream, "dv_profile", None)

\* C20: the Dolby Vision profile is that of the first source that has it,
\* side-data DOVI configuration record, then tag DOVI_PROFILE, then field
\* dv_profile, and "Dolby Vision Profile 5" is flagged whenever that profile
\* is 5, as a number or as a string.
C20_ProfileFiveFlagged ==
    analysis.done =>
        LET profile == first_profile(doc.v.streams.v[1])
        IN  /\ analysis.video_info.dolby_vision_profile = profile
            /\ analysis.detected.exc = ""
            /\ analysis.detected.issues["Dolby Vision Profile 5"]
                  = (profile \in {I(5), S(<<"5">>)})
-----------------------------------------------------------------------------
(* The claims about the record of a document with several video streams     *)
(* (SpecDetect)                                                              *)

\* value, with " (+n)" after it when n > 0
folded(value, n) ==
    IF n > 0 THEN S(py_str(value) \o <<" ","(","+">> \o int_str(n) \o <<")">>) ELSE value

\* the keys of the first video stream behind fields 7 to 10 of the record
FoldedFields == <<"codec_name", "codec_long_name", "profile", "level">>

\* the record of a document that was analysed to its end
recorded == analysis.done /\ analysis.result.exc = "" /\ Len(analysis.result.v) > 40

\* C21: with k > 1 video streams the codec, codec long name, profile and
\* level of the record are the first stream's values followed by " (+k-1)";
\* with one video stream they are the values themselves.
C21_StreamsFolded ==
    recorded =>
        LET video_streams == streams_of(doc, <<"v","i","d","e","o">>)
        IN  \A f \in 1..4 :
                analysis.result.v[6 + f]
                    = folded(dict_get(video_streams[1], FoldedFields[f], NA),
                             Len(video_streams) - 1)


\* C24: in every successful record Issues Detected is "1" exactly when the
\* Issue Description is not "None": a flag that is set has a description,
\* and there is no description without a flag.
C24_FlagIffDescription ==
    recorded =>
        /\ issues_detected \in {S(<<"0">>), S(<<"1">>)}
        /\ (issues_detected = S(<<"1">>)) = (issue_description # S(<<"N","o","n","e">>))
        /\ (flags_set = {}) = (analysis.detected.issue_descriptions = <<>>)
        /\ Len(analysis.detected.issue_descriptions) >= Cardinality(flags_set)

\* a record with several flags and their descriptions, and one without any
C24_Witness ==
    /\ recorded
    /\ Cardinality(flags_set) >= 2
    /\ issues_detected = S(<<"1">>)
    /\ issue_description # S(<<"N","o","n","e">>)


\* C25: "High bitrate" and "Low bitrate" are never both set, and "Very high
\* bitrate" is set only together with "High bitrate".
C25_BitrateFlagsConsistent ==
    (analysis.done /\ analysis.detected.exc = "") =>
        /\ ~("High bitrate" \in flags_set /\ "Low bitrate" \in flags_set)
        /\ "Very high bitrate" \in flags_set => "High bitrate" \in flags_set

\* a file of 150 Mbps is flagged with both
C25_Witness ==
    /\ analysis.done /\ analysis.detected.exc = ""
    /\ analysis.video_info.bitrate = S(<<"1","5","0","0","0","0","0","0","0">>)
    /\ {"Very high bitrate", "High bitrate"} \subseteq flags_set

-----------------------------------------------------------------------------
(* The claims about the cursor, the CSV and the counters of main (Spec)     *)

\* C22: the cursor stored in the file list is at most the index of the next
\* entry without a record in the CSV, at every point of a run, and it never
\* decreases.
C22_CursorBehindCsv ==
    /\ [](cursor <= Len(csv.rows))
    /\ [][cursor' >= cursor]_vars

-----------------------------------------------------------------------------
(* The claim about generate_statistics (SpecStatistics) *)

\* the records of the list whose field `key` is an integer literal
usable(key) == {k \in 1..Len(file_list) : py_int(file_list[k].v[key]).exc = ""}

\* the number of records a Counter has counted
RECURSIVE counter_total(_)
counter_total(counter) ==
    IF DOMAIN counter = {} THEN 0
    ELSE LET key == CHOOSE key \in DOMAIN counter : TRUE
         IN  counter[key] + counter_total([other \in DOMAIN counter \ {key} |-> counter[other]])

\* C23: generate_statistics never raises; a record with a field that one
\* statistic cannot use gets an entry in stats['errors'] and is left out of
\* that statistic only: every other statistic counts it, and the other
\* records are folded as usual.
C23_FaultyFieldOnly ==
    /\ raised.exc = ""
    /\ pc \in {"runtime", "playtime", "returned"} =>
          /\ counter_total(stats.formats) = Len(file_list)
          /\ counter_total(stats.resolutions) = Len(file_list)
          /\ counter_total(stats.soundtrack_counts) = Cardinality(usable("Audio Stream Count"))
          /\ stats.total_count = Cardinality(usable("Subtitle stream count in file"))
          /\ \A k \in 1..Len(file_list) :
                (k \notin usable("Audio Stream Count")
                 \/ k \notin usable("Subtitle stream count in file"))
                    => \E e \in 1..Len(stats.errors) : stats.errors[e].record = k

\* the sum of the five tier counters
tier_total == stats.error + stats.failed + stats.low + stats.medium + stats.high

\* C26: in a run with samples >= 1 every processed file increments exactly
\* one tier counter, so that error + failed + low + medium + high equals
\* processed once the counters of a file are updated.
C26_TiersSumToProcessed ==
    (args.samples >= 1 /\ pc \in {"cursor", "report", "done"}) => tier_total = stats.processed

\* the written records whose Issues Detected field is "0"
rows_without_issues == {k \in 1..Len(csv.rows) : csv.rows[k][39] = <<"0">>}

\* C27: no_issues + with_issues equals processed, and no_issues is the
\* number of written records whose Issues Detected field is "0".
C27_NoIssuesCounted ==
    pc \in {"cursor", "report", "done"} =>
        /\ stats.no_issues + stats.with_issues = stats.processed
        /\ stats.no_issues = Cardinality(rows_without_issues)


\* C29: when a run resumed with -r has run to its end, the CSV holds one
\* record for every entry of the file list, those processed before the
\* interruption too.
C29_ResumedCsvComplete ==
    (args.mode = "resume" /\ pc = "done") => Len(csv.rows) = Len(file_list)

-----------------------------------------------------------------------------
(* The claim about the life of the transcoder process (SpecTranscodeFair)   *)

\* C28: when simulate_plex_transcoding returns, with "Aborted" too, the
\* transcoder it launched has exited, and the next one is launched only
\* then: at most one transcoder is alive.
C28_OneTranscoderAlive ==
    /\ [](tc.pc = "return" => tc.process # "running")
    /\ [][(tc.pc = "launch" /\ tc'.pc # "launch") => tc.process # "running"]_vars

-----------------------------------------------------------------------------
(* The claim about transcode-hdr-to-sdr.py (SpecHdr) *)

\* the file the run is at
at_file == fix.files[fix.idx]

\* C30: the final output appears only after a HandBrake run that exited with
\* 0; the input is renamed to .to_be_deleted only once the output is at its
\* final name; a failed or interrupted run leaves the input as it was, and
\* its file is transcoded again by the next run instead of being skipped.
C30_OutputThenInput ==
    /\ [][\A f \in DOMAIN fix.files :
             (~fix.files[f].output /\ fix'.files[f].output)
                 => (fix.returncode = 0 /\ fix.files[f].temp = "complete")]_vars
    /\ [][\A f \in DOMAIN fix.files :
             (fix.files[f].input = "present" /\ fix'.files[f].input = "to_be_deleted")
                 => fix.files[f].output]_vars
    /\ [][(fix'.pc = "stopped" \/ (fix.pc = "returncode" /\ fix.returncode # 0))
             => fix'.files[fix.idx].input = fix.files[fix.idx].input]_vars
    /\ [][(fix.pc = "exists" /\ at_file.output /\ fix'.pc # "stopped")
             => at_file.input = "to_be_deleted"]_vars
====
